---- MODULE Spec2Model ----
(***************************************************************************)
(* A model of the GTP engine of maru (src/deepgo/gtp.py, player.py,        *)
(* board.py): the reader loop of GTPEngine.run, the command executor       *)
(* thread GTPEngine._perform, the command handlers, and the Player that    *)
(* they drive.  The native board and search (deepgo.native) are modelled   *)
(* from the interface description of the board module.                     *)
(***************************************************************************)
EXTENDS Integers, Sequences, FiniteSets, TLC

(***************************************************************************)
(* config.py                                                               *)
(***************************************************************************)
BLACK == 1
WHITE == -1
EMPTY == 0
PASS == <<-1, -1>>
RULE_CH == 0
RULE_JP == 1
RULE_COM == 2
MODEL_SIZE == 19

\* Python's None as a position (resign): the tuple with no coordinates.
Resign == << >>

(***************************************************************************)
(* Bounds of the model                                                     *)
(***************************************************************************)
\* number of command lines the reader takes from its input
MaxCmds == 3
\* number of analysis lines one streaming command may write
MaxStream == 2

(***************************************************************************)
(* board.py helpers                                                        *)
(***************************************************************************)
get_opposite_color(color) == color * (-1)

is_valid_position(pos, width, height) ==
    /\ 0 <= pos[1] /\ pos[1] < width
    /\ 0 <= pos[2] /\ pos[2] < height

\* The handicap points, in the order get_handicap_positions appends them.
get_handicap_positions(width, height, handicap) ==
    LET ver_line == IF width >= 13 THEN 3 ELSE 2
        hor_line == IF height >= 13 THEN 3 ELSE 2
        centre == <<width \div 2, height \div 2>>
    IN  (IF handicap >= 2
            THEN << <<width - ver_line - 1, hor_line>>,
                    <<ver_line, height - hor_line - 1>> >>
            ELSE << >>)
        \o (IF handicap >= 3 THEN << <<ver_line, hor_line>> >> ELSE << >>)
        \o (IF handicap >= 4
               THEN << <<width - ver_line - 1, height - hor_line - 1>> >>
               ELSE << >>)
        \o (IF handicap = 5 THEN <<centre>> ELSE << >>)
        \o (IF handicap >= 6
               THEN << <<ver_line, height \div 2>>,
                       <<width - ver_line - 1, height \div 2>> >>
               ELSE << >>)
        \o (IF handicap = 7 THEN <<centre>> ELSE << >>)
        \o (IF handicap >= 8
               THEN << <<width \div 2, hor_line>>,
                       <<width \div 2, height - hor_line - 1>> >>
               ELSE << >>)
        \o (IF handicap = 9 THEN <<centre>> ELSE << >>)

(***************************************************************************)
(* The native board (deepgo.native.NativeBoard): the rules of Go on a      *)
(* width x height grid.  A board is a record                               *)
(*   cells : the colour of every point,                                    *)
(*   ko    : for each colour the point it may not retake (PASS if none).   *)
(***************************************************************************)
Points(width, height) == (0 .. width - 1) \X (0 .. height - 1)

NoKo == [c \in {BLACK, WHITE} |-> PASS]

EmptyBoard(width, height) ==
    [cells |-> [p \in Points(width, height) |-> EMPTY], ko |-> NoKo]

Neighbours(cells, p) ==
    { q \in { <<p[1] - 1, p[2]>>, <<p[1] + 1, p[2]>>, <<p[1], p[2] - 1>>, <<p[1], p[2] + 1>> } :
        q \in DOMAIN cells }

\* The chain (ren) of stones of one colour that contains the set `seen`.
RECURSIVE Grow(_, _, _)
Grow(cells, colour, seen) ==
    LET more == { q \in UNION { Neighbours(cells, s) : s \in seen } :
                    q \notin seen /\ cells[q] = colour }
    IN  IF more = {} THEN seen ELSE Grow(cells, colour, seen \cup more)

Ren(cells, p) == Grow(cells, cells[p], {p})

\* The empty points next to a chain: its liberties.
RenSpace(cells, ren) ==
    { q \in UNION { Neighbours(cells, s) : s \in ren } : cells[q] = EMPTY }

\* the one element of a set of one
Only(S) == CHOOSE x \in S : TRUE

\* The stones of colour `other` next to pos that are left without a liberty.
Captured(placed, pos, other) ==
    UNION { IF RenSpace(placed, Ren(placed, n)) = {} THEN Ren(placed, n) ELSE {}
            : n \in { m \in Neighbours(placed, pos) : placed[m] = other } }

\* The ko point that the capture of `dead` by the stone at pos leaves to
\* `other`: the captured point, when one stone was taken by a single stone
\* that is left with one liberty.
KoAfter(other, dead, own, space) ==
    [c \in {BLACK, WHITE} |->
       IF c = other /\ Cardinality(dead) = 1 /\ Cardinality(own) = 1 /\ Cardinality(space) = 1
       THEN CHOOSE q \in dead : TRUE
       ELSE PASS]

\* The board once the captured stones are off: illegal if the chain of the
\* new stone has no liberty (suicide).
Settle(board, other, dead, cleared, own, space) ==
    IF space = {}
    THEN [board |-> board, captured |-> -1]
    ELSE [board |-> [cells |-> cleared, ko |-> KoAfter(other, dead, own, space)],
          captured |-> Cardinality(dead)]

Liberties(board, other, dead, cleared, own) ==
    Only({ Settle(board, other, dead, cleared, own, space)
           : space \in { RenSpace(cleared, own) } })

Remove(board, pos, other, dead, cleared) ==
    Only({ Liberties(board, other, dead, cleared, own) : own \in { Ren(cleared, pos) } })

Lift(board, pos, other, placed, dead) ==
    Only({ Remove(board, pos, other, dead, cleared)
           : cleared \in { [q \in DOMAIN placed |->
                              IF q \in dead THEN EMPTY ELSE placed[q]] } })

Place(board, pos, other, placed) ==
    Only({ Lift(board, pos, other, placed, dead)
           : dead \in { Captured(placed, pos, other) } })

\* NativeBoard.play(pos, color): the board after the move and the number of
\* captured stones; an illegal move leaves the board as it is and yields -1.
BoardPlay(board, pos, color) ==
    IF pos = PASS
    THEN [board |-> [board EXCEPT !.ko = NoKo], captured |-> 0]
    ELSE IF \/ pos \notin DOMAIN board.cells
            \/ board.cells[pos] # EMPTY
            \/ board.ko[color] = pos
    THEN [board |-> board, captured |-> -1]
    ELSE Only({ Place(board, pos, get_opposite_color(color), placed)
                : placed \in { [board.cells EXCEPT ![pos] = color] } })

\* NativeBoard.is_enabled(pos, color): the stone may legally be placed.
BoardIsEnabled(board, pos, color) == BoardPlay(board, pos, color).captured >= 0

\* NativeBoard.get_patterns(): the fingerprint of the stone arrangement.
BoardPatterns(board) == board.cells

(***************************************************************************)
(* Text.  A Python str is a sequence of one-character strings.             *)
(***************************************************************************)
UpperLetters == <<"A", "B", "C", "D", "E", "F", "G", "H", "I", "J", "K", "L", "M",
                  "N", "O", "P", "Q", "R", "S", "T", "U", "V", "W", "X", "Y", "Z">>
LowerLetters == <<"a", "b", "c", "d", "e", "f", "g", "h", "i", "j", "k", "l", "m",
                  "n", "o", "p", "q", "r", "s", "t", "u", "v", "w", "x", "y", "z">>
Digits == <<"0", "1", "2", "3", "4", "5", "6", "7", "8", "9">>

IndexOf(seq, ch) == CHOOSE i \in 1 .. Len(seq) : seq[i] = ch
Occurs(seq, ch) == \E i \in 1 .. Len(seq) : seq[i] = ch

\* str.lower() and str.upper()
LowerChar(ch) == IF Occurs(UpperLetters, ch) THEN LowerLetters[IndexOf(UpperLetters, ch)] ELSE ch
UpperChar(ch) == IF Occurs(LowerLetters, ch) THEN UpperLetters[IndexOf(LowerLetters, ch)] ELSE ch
Lower(s) == [i \in 1 .. Len(s) |-> LowerChar(s[i])]

IsDigits(s) == Len(s) >= 1 /\ \A i \in 1 .. Len(s) : Occurs(Digits, s[i])

\* int(s) for a string of decimal digits
RECURSIVE ParseInt(_)
ParseInt(s) ==
    IF Len(s) = 0 THEN 0
    ELSE 10 * ParseInt(SubSeq(s, 1, Len(s) - 1)) + (IndexOf(Digits, s[Len(s)]) - 1)

\* str(n) for n >= 0
RECURSIVE FormatInt(_)
FormatInt(n) ==
    IF n < 10 THEN <<Digits[n + 1]>>
    ELSE FormatInt(n \div 10) \o <<Digits[(n % 10) + 1]>>

\* gtp_string_to_position: ok is FALSE where the code raises GoException.
gtp_string_to_position(s, width, height) ==
    IF Lower(s) = <<"p", "a", "s", "s">> THEN [ok |-> TRUE, pos |-> PASS]
    ELSE IF Lower(s) = <<"r", "e", "s", "i", "g", "n">> THEN [ok |-> TRUE, pos |-> Resign]
    ELSE IF ~ (/\ Len(s) >= 2
               /\ Occurs(SubSeq(UpperLetters, 1, 20), UpperChar(s[1]))
               /\ IsDigits(Tail(s)))
    THEN [ok |-> FALSE, pos |-> Resign]
    ELSE
      LET code == IndexOf(UpperLetters, UpperChar(s[1])) - 1
          x == IF code > 8 THEN code - 1 ELSE code
          y == height - ParseInt(Tail(s))
      IN  IF is_valid_position(<<x, y>>, width, height)
          THEN [ok |-> TRUE, pos |-> <<x, y>>]
          ELSE [ok |-> FALSE, pos |-> Resign]

\* gtp_string_to_color: 0 where the code returns None.
gtp_string_to_color(s) ==
    IF LowerChar(s[1]) = "b" THEN BLACK
    ELSE IF LowerChar(s[1]) = "w" THEN WHITE
    ELSE 0

\* gtp_position_to_string that does not skip the letter I
PositionToStringWithI(p, width, height) ==
    IF p = Resign THEN <<"r", "e", "s", "i", "g", "n">>
    ELSE IF ~ is_valid_position(p, width, height) THEN <<"P", "A", "S", "S">>
    ELSE <<UpperLetters[p[1] + 1]>> \o FormatInt(height - p[2])

gtp_position_to_string(p, width, height) ==
    IF p = Resign THEN <<"r", "e", "s", "i", "g", "n">>
    ELSE IF ~ is_valid_position(p, width, height) THEN <<"P", "A", "S", "S">>
    ELSE LET x == IF p[1] >= 8 THEN p[1] + 1 ELSE p[1]
         IN  <<UpperLetters[x + 1]>> \o FormatInt(height - p[2])

\* gtp_args_to_color: the first argument that names a colour, 0 if none does.
RECURSIVE gtp_args_to_color(_)
gtp_args_to_color(args) ==
    IF Len(args) = 0 THEN 0
    ELSE IF gtp_string_to_color(Head(args)) # 0 THEN gtp_string_to_color(Head(args))
    ELSE gtp_args_to_color(Tail(args))

(***************************************************************************)
(* The native player (deepgo.native.NativePlayer): the board of the game,  *)
(* the colour to move and the komi it was created with.  searching tells   *)
(* that a search session was started and has not been waited for with the  *)
(* stop flag; raced records that the board was changed while searching,    *)
(* overlapped that a session was started while searching.                  *)
(***************************************************************************)
NativeCreate(width, height, komi) ==
    [board |-> EmptyBoard(width, height), color |-> BLACK, komi |-> komi,
     searching |-> FALSE, raced |-> FALSE, overlapped |-> FALSE]

\* NativePlayer.start_evaluation(...)
NativeStartEvaluation(native) ==
    [native EXCEPT !.overlapped = @ \/ native.searching, !.searching = TRUE]

\* NativePlayer.wait_evaluation(visits, playouts, timelimit, stop)
NativeWaitEvaluation(native, stop) ==
    [native EXCEPT !.searching = @ /\ ~ stop]

\* NativePlayer.initialize()
NativeInitialize(native) ==
    [native EXCEPT !.board = [cells |-> [p \in DOMAIN native.board.cells |-> EMPTY],
                              ko |-> NoKo],
                   !.color = BLACK,
                   !.raced = @ \/ native.searching]

\* what NativePlayer.play leaves, given what the board answered
NativePlayed(native, r) ==
    IF r.captured < 0
    THEN [native |-> native, captured |-> -1]
    ELSE [native |-> [native EXCEPT !.board = r.board,
                                    !.color = get_opposite_color(native.color),
                                    !.raced = @ \/ native.searching],
          captured |-> r.captured]

\* NativePlayer.play(pos): the colour to move plays; an illegal move changes nothing.
NativePlay(native, pos) ==
    Only({ NativePlayed(native, r) : r \in { BoardPlay(native.board, pos, native.color) } })

(***************************************************************************)
(* player.py: Player                                                       *)
(***************************************************************************)
\* "self.player is None"
NoPlayer == [none |-> TRUE]

\* Player.__init__
PlayerCreate(width, height, komi, rule, superko) ==
    [native |-> NativeCreate(width, height, komi),
     width |-> width, height |-> height, komi |-> komi, rule |-> rule,
     superko |-> superko, turn |-> 0, moves |-> <<0, 0>>, captureds |-> <<0, 0>>,
     histories |-> {}]

\* Player.initialize: histories is not reset.
PlayerInitialize(p) ==
    [p EXCEPT !.native = NativeInitialize(p.native),
              !.turn = 0, !.moves = <<0, 0>>, !.captureds = <<0, 0>>]

\* Player.get_board / Player.get_color
PlayerBoard(p) == p.native.board
PlayerColor(p) == p.native.color

\* "if self.native.get_color() != color: self.native.play(PASS)"
NativeTurnTo(native, color) ==
    IF native.color # color
    THEN [native EXCEPT !.board.ko = NoKo, !.color = color,
                        !.raced = @ \/ native.searching]
    ELSE native

\* Player.set_handicap: every stone is played natively as Black; only the
\* count of black moves is updated.
RECURSIVE PlayerSetStones(_, _)
PlayerSetStones(p, positions) ==
    IF Len(positions) = 0 THEN p
    ELSE Only({ PlayerSetStones([p EXCEPT !.native = r.native, !.moves[1] = @ + 1],
                                Tail(positions))
                : r \in { NativePlay(NativeTurnTo(p.native, BLACK), Head(positions)) } })

PlayerSetHandicap(p, handicap) ==
    PlayerSetStones(p, get_handicap_positions(p.width, p.height, handicap))

\* Player.is_superko_move
PlayerIsSuperkoMove(p, pos, color) ==
    /\ is_valid_position(pos, p.width, p.height)
    /\ BoardPatterns(BoardPlay(PlayerBoard(p), pos, color).board) \in p.histories

\* the bookkeeping of Player.play once the native player has moved
PlayerPlayed(p, pos, color, r) ==
    [p EXCEPT !.native = r.native,
              !.turn = @ + 1,
              !.moves[IF color = BLACK THEN 1 ELSE 2] =
                  @ + (IF is_valid_position(pos, p.width, p.height) /\ r.captured >= 0
                       THEN 1 ELSE 0),
              !.captureds[IF color = BLACK THEN 2 ELSE 1] = @ + r.captured,
              !.histories = @ \cup {BoardPatterns(r.native.board)}]

PlayerPlayAs(p, pos, color) ==
    Only({ PlayerPlayed(p, pos, color, r)
           : r \in { NativePlay(NativeTurnTo(p.native, color), pos) } })

\* Player.play(pos, color); color = 0 stands for "color is None".
PlayerPlay(p, pos, c) == PlayerPlayAs(p, pos, IF c = 0 THEN p.native.color ELSE c)

\* Player.stop_evaluation: "self.native.wait_evaluation(0, 0, 0.0, True)"
PlayerStopEvaluation(p) == [p EXCEPT !.native = NativeWaitEvaluation(p.native, TRUE)]

\* the session calls of Player.get_pass and of Player.get_random
PlayerSearchedOnce(p) ==
    [p EXCEPT !.native = NativeWaitEvaluation(NativeStartEvaluation(p.native), TRUE)]

\* no search session was started
NoSearch == [none |-> TRUE]

(***************************************************************************)
(* The Processor (deepgo.native NativeProcessor behind Processor.execute), *)
(* as the specification describes it: a queue of requests, each with the   *)
(* completion slot of its caller, and one dispatcher per accelerator that  *)
(* drains up to batch_size requests, runs the model on them and scatters   *)
(* the results.                                                            *)
(***************************************************************************)
\* the threads that call execute, and the calls each of them makes
ExecuteThreads == 3
CallsEach == 3
\* Processor.__init__: "batch_size"
batch_size == 2
\* Processor.__init__: "gpus: List[int] = [-1]"
gpus == << -1 >>

Callers == 1 .. ExecuteThreads
Dispatchers == 1 .. Len(gpus)

\* the input of the k-th call of caller c, tagged with caller and sequence
Input(c, k) == 10 * c + k
Inputs == { Input(c, k) : c \in Callers, k \in 1 .. CallsEach }

\* the model: a fixed function of the input
ModelOutput(x) == 2 * x + 1

NewProcessor ==
    [queue |-> << >>,
     dpc |-> [d \in Dispatchers |-> "idle"],
     batch |-> [d \in Dispatchers |-> << >>],
     outputs |-> [d \in Dispatchers |-> << >>],
     slot |-> [c \in Callers |-> << >>],
     cpc |-> [c \in Callers |-> "idle"],
     calls |-> [c \in Callers |-> 0],
     results |-> [c \in Callers |-> << >>],
     served |-> [x \in Inputs |-> 0],
     invocations |-> 0,
     largest |-> 0]

\* a dispatcher that waits until a whole batch is queued
CanDrainFull(queue) == Len(queue) >= batch_size

\* a dispatcher drains as soon as a request is waiting
CanDrain(queue) == Len(queue) >= 1

\* the requests a dispatcher takes: up to batch_size, from the head
Drained(queue) == SubSeq(queue, 1, IF Len(queue) < batch_size THEN Len(queue) ELSE batch_size)

\* the model run on a batch
Inferred(batch) == [i \in 1 .. Len(batch) |-> ModelOutput(batch[i].input)]

\* results handed out in the reverse order of the batch
ScatteredReversed(slot, batch, outputs) ==
    [c \in Callers |->
       IF \E i \in 1 .. Len(batch) : batch[i].caller = c
       THEN << outputs[Len(batch) + 1 - (CHOOSE i \in 1 .. Len(batch) : batch[i].caller = c)] >>
       ELSE slot[c]]

\* each result is put into the completion slot of the request it belongs to
Scattered(slot, batch, outputs) ==
    [c \in Callers |->
       IF \E i \in 1 .. Len(batch) : batch[i].caller = c
       THEN << outputs[CHOOSE i \in 1 .. Len(batch) : batch[i].caller = c] >>
       ELSE slot[c]]

(***************************************************************************)
(* The state of the engine                                                 *)
(***************************************************************************)
VARIABLES
    player,      \* GTPEngine.player: a Player, or NoPlayer
    moves,       \* GTPEngine.moves: the move log, a sequence of <<pos, color>>
    size,        \* GTPEngine.size
    komi,        \* GTPEngine.komi, in tenths of a point
    remain_times, \* GTPEngine.remain_times: seconds left to Black and to White
    rule,        \* GTPEngine.rule
    superko,     \* GTPEngine.superko
    ponder,      \* GTPEngine.ponder
    search,      \* the search session of the native player: its tree and its workers
    processor,   \* the Processor: its queue, its dispatchers and its callers
    thread,      \* GTPEngine.thread: the slot of the last executor, 0 for None
    terminated,  \* GTPEngine.terminated: the cancellation flag
    exec,        \* the executor threads (GTPEngine._perform), one per slot
    rpc,         \* where the reader (GTPEngine.run) stands
    line,        \* the command line the reader is working on
    ncmds,       \* number of lines read so far
    out,         \* what has been written to GTPEngine.writer
    last         \* the latest run of a handler: command, state before, result

vars == <<player, moves, size, komi, remain_times, rule, superko, ponder, search, processor, thread,
          terminated,
          exec, rpc, line, ncmds, out, last>>

\* the engine's game state, as the handlers read and write it
GameState ==
    [player |-> player, moves |-> moves, size |-> size, komi |-> komi,
     remain_times |-> remain_times]

(***************************************************************************)
(* Engine options (GTPEngine.__init__)                                     *)
(***************************************************************************)
\* resign_threshold, in hundredths of a win chance
resign_threshold == 50
\* resign_score, in tenths of a point
resign_score == 0
resign_turn == 0
initial_turn == 0
\* DEFAULT_KOMI, in tenths of a point
DEFAULT_KOMI == 75
\* the board size the engine is started with
BoardSize == 3

\* executor slots: two, so that two live executors can be told apart
Slots == {1, 2}

(***************************************************************************)
(* The search (NativePlayer.start_evaluation / wait_evaluation /           *)
(* get_candidates) and the network (Processor.execute) are the             *)
(* environment: what they return is drawn from small sets.                 *)
(***************************************************************************)
\* the points the client and the search use
Vertices == { <<0, 0>>, <<1, 0>> }

\* the largest k in lo .. hi with k * k <= n, by bisection
RECURSIVE IsqrtIn(_, _, _)
IsqrtIn(n, lo, hi) ==
    IF lo >= hi THEN lo
    ELSE IF ((lo + hi + 1) \div 2) * ((lo + hi + 1) \div 2) <= n
    THEN IsqrtIn(n, (lo + hi + 1) \div 2, hi)
    ELSE IsqrtIn(n, lo, (lo + hi + 1) \div 2 - 1)

\* the largest k with k * k <= n (46340 is the largest whose square is an int)
Isqrt(n) == IsqrtIn(n, 0, IF n > 46340 THEN 46340 ELSE n)

\* 1.96 * 0.25 / (visits + 1) ** 0.5 in thousandths, rounded down:
\* the square root of 0.49 ** 2 / (visits + 1)
Margin(visits) == Isqrt(240100 \div (visits + 1))

\* a Candidate whose win chance is not halved
CandidateWhole(pos, color, visits, value) ==
    [pos |-> pos, color |-> color, visits |-> visits, value |-> value,
     win_chance |-> value * color + 50,
     win_chance_lcb |-> 10 * (value * color + 50) - Margin(visits)]

\* Candidate.__init__: value (an even number) and win_chance in hundredths,
\* win_chance_lcb in thousandths.
Candidate(pos, color, visits, value) ==
    [pos |-> pos, color |-> color, visits |-> visits, value |-> value,
     win_chance |-> (value * color) \div 2 + 50,
     win_chance_lcb |-> 10 * ((value * color) \div 2 + 50) - Margin(visits)]

\* NativePlayer.get_pass() as a Candidate
PassCandidate(p) == Candidate(PASS, PlayerColor(p), 1, 0)

\* The candidate lists the native search may return for the colour to move:
\* legal moves only, at most two of them.
SearchLists(color, legal) ==
    { << >> }
    \cup { <<Candidate(v, color, 2, val)>> : v \in legal, val \in {-100, 100} }
    \cup { <<Candidate(vw[1], color, 1, 100), Candidate(vw[2], color, 2, -100)>> :
             vw \in { pr \in legal \X legal : pr[1] # pr[2] } }

SearchResults(p) ==
    SearchLists(PlayerColor(p),
                { v \in Vertices \cup {PASS} : BoardIsEnabled(PlayerBoard(p), v, PlayerColor(p)) })

\* list.sort(key=visits, reverse=True): stable, largest first
RECURSIVE SortByVisits(_)
SortByVisits(cs) ==
    IF Len(cs) <= 1 THEN cs
    ELSE LET best == CHOOSE i \in 1 .. Len(cs) :
                        /\ \A j \in 1 .. Len(cs) : cs[j].visits <= cs[i].visits
                        /\ \A j \in 1 .. i - 1 : cs[j].visits < cs[i].visits
             rest == [k \in 1 .. Len(cs) - 1 |-> IF k < best THEN cs[k] ELSE cs[k + 1]]
         IN  <<cs[best]>> \o SortByVisits(rest)

\* [c for c in candidates if not self.is_superko_move(c.pos, c.color)]
RECURSIVE DropSuperko(_, _)
DropSuperko(p, cs) ==
    IF Len(cs) = 0 THEN << >>
    ELSE (IF PlayerIsSuperkoMove(p, Head(cs).pos, Head(cs).color)
             THEN << >> ELSE <<Head(cs)>>)
         \o DropSuperko(p, Tail(cs))

\* "if there are no candidates, add pass as a candidate"
OrPass(p, kept) == IF Len(kept) = 0 THEN <<PassCandidate(p)>> ELSE kept

\* list.sort(key=win_chance_lcb, reverse=True): stable, largest first
RECURSIVE SortByLcb(_)
SortByLcb(cs) ==
    IF Len(cs) <= 1 THEN cs
    ELSE LET best == CHOOSE i \in 1 .. Len(cs) :
                        /\ \A j \in 1 .. Len(cs) : cs[j].win_chance_lcb <= cs[i].win_chance_lcb
                        /\ \A j \in 1 .. i - 1 : cs[j].win_chance_lcb < cs[i].win_chance_lcb
             rest == [k \in 1 .. Len(cs) - 1 |-> IF k < best THEN cs[k] ELSE cs[k + 1]]
         IN  <<cs[best]>> \o SortByLcb(rest)

\* The stones of the other colour that NativeBoard.get_territories(color)
\* may put inside the territory of `color`: any of them.
DeadSets(p, color) ==
    SUBSET { q \in DOMAIN PlayerBoard(p).cells :
               PlayerBoard(p).cells[q] = get_opposite_color(color) }

\* Player.get_cleanup_position: the first point, row by row, where `color`
\* may play next to a dead stone; PASS if there is none.
CleanupTargets(p, color, dead) ==
    { v \in DOMAIN PlayerBoard(p).cells :
        /\ BoardIsEnabled(PlayerBoard(p), v, color)
        /\ Neighbours(PlayerBoard(p).cells, v) \cap dead # {} }

FirstByRow(targets) ==
    CHOOSE v \in targets :
      \A w \in targets : v[2] < w[2] \/ (v[2] = w[2] /\ v[1] <= w[1])

PlayerGetCleanupPosition(p, color, dead) ==
    IF CleanupTargets(p, color, dead) = {} THEN PASS
    ELSE FirstByRow(CleanupTargets(p, color, dead))

\* "in COM rule ... replace pass coordinates with cleanup coordinates"
Cleanup(p, cs, dead) ==
    IF p.rule # RULE_COM THEN cs
    ELSE [i \in 1 .. Len(cs) |->
            IF is_valid_position(cs[i].pos, p.width, p.height) THEN cs[i]
            ELSE [cs[i] EXCEPT !.pos = PlayerGetCleanupPosition(p, cs[i].color, dead)]]

\* candidates.sort(...) of Player.evaluate
SortBy(cs, by) == IF by = "visits" THEN SortByVisits(cs) ELSE SortByLcb(cs)

\* Player.evaluate without the fallback to the pass candidate
EvaluateUnfilled(p, found, by, dead) ==
    SortBy(Cleanup(p, IF p.superko THEN DropSuperko(p, found) ELSE found, dead), by)

\* Player.evaluate, from the candidates of the native search on: drop the
\* superko moves, fall back to the pass candidate, replace a pass by the
\* cleanup move under RULE_COM, sort.
PlayerEvaluateBy(p, found, by, dead) ==
    SortBy(Cleanup(p, OrPass(p, IF p.superko THEN DropSuperko(p, found) ELSE found), dead),
           by)

\* GTPEngine.criterion
criterion == "visits"

\* Player.evaluate as the engine calls it
PlayerEvaluate(p, found, dead) == PlayerEvaluateBy(p, found, criterion, dead)

\* The owners the network may predict for the points of the board
\* ("territories.argmax(axis=0) - 1"): all Black's, or split by column.
Owners(n) ==
    { [p \in Points(n, n) |-> BLACK],
      [p \in Points(n, n) |-> IF p[1] = 0 THEN BLACK ELSE WHITE] }

\* What the network predicts for the board after a move: the score after
\* the candidate, the score after a pass (tenths of a point, komi taken
\* off), and the predicted owner of every point.
Predictions(n) ==
    { [score |-> sc[1], pass_score |-> sc[2], owners |-> o] :
        sc \in { <<10, 5>>, <<10, -10>>, <<10, 30>> }, o \in Owners(n) }

Abs(n) == IF n < 0 THEN -n ELSE n

\* "for x, y in np.ndindex(...)": no empty point has a neighbour on the
\* board with another predicted owner
BoundaryFixed(cells, owners, n) ==
    \A p \in Points(n, n) :
      cells[p] = EMPTY =>
        \A d \in { <<-1, 0>>, <<1, 0>>, <<0, -1>>, <<0, 1>> } :
          is_valid_position(<<p[1] + d[1], p[2] + d[2]>>, n, n)
            => owners[p] = owners[<<p[1] + d[1], p[2] + d[2]>>]

\* the options of the engine that _get_move reads
Min(a, b) == IF a < b THEN a ELSE b
Max(a, b) == IF a > b THEN a ELSE b

\* _get_timelimit without the floor at 0
GetTimelimitUnfloored(times, limit, color) ==
    LET remain_time == IF color = BLACK THEN times[1] ELSE times[2]
    IN  IF remain_time < 0 THEN limit ELSE Min(limit, remain_time - 20)

\* GTPEngine._get_timelimit.  Budgets are in fiftieths of a second, so that
\* (remain_time - 20) * 0.02 seconds is remain_time - 20.
GetTimelimit(times, limit, color) ==
    LET remain_time == IF color = BLACK THEN times[1] ELSE times[2]
    IN  IF remain_time < 0 THEN limit
        ELSE Max(Min(limit, remain_time - 20), 0)

Options ==
    [rule |-> rule, resign_turn |-> resign_turn, resign_score |-> resign_score,
     resign_threshold |-> resign_threshold]

Move(pos, stopped) == [raised |-> FALSE, pos |-> pos, stopped |-> stopped]

\* _get_move with every resignation test removed but the win chance
GetMoveEager(gs, candidate, env, opt) ==
    IF ~ BoardIsEnabled(PlayerBoard(gs.player), candidate.pos, candidate.color)
    THEN [raised |-> TRUE, pos |-> Resign, stopped |-> FALSE]
    ELSE IF candidate.win_chance < opt.resign_threshold
    THEN Move(Resign, TRUE)
    ELSE Move(candidate.pos, FALSE)

\* _get_move with the auto-pass under every rule
GetMoveAnyRule(gs, candidate, env, opt) ==
    IF ~ BoardIsEnabled(PlayerBoard(gs.player), candidate.pos, candidate.color)
    THEN [raised |-> TRUE, pos |-> Resign, stopped |-> FALSE]
    ELSE IF (IF candidate.color = BLACK THEN env.score - env.pass_score
             ELSE env.pass_score - env.score) < 8
    THEN Move(PASS, TRUE)
    ELSE Move(candidate.pos, FALSE)

\* GTPEngine._get_move under the options opt: the position to play, Resign
\* for resignation, and whether stop_evaluation was called.  raised marks
\* the GoException of Board.play on an illegal candidate.
GetMove(gs, candidate, env, opt) ==
    IF ~ BoardIsEnabled(PlayerBoard(gs.player), candidate.pos, candidate.color)
    THEN [raised |-> TRUE, pos |-> Resign, stopped |-> FALSE]
    ELSE
      LET boundary_fixed ==
              IF \A i \in 1 .. Len(gs.moves) : gs.moves[i][1] # PASS
              THEN BoundaryFixed(PlayerBoard(gs.player).cells, env.owners, gs.size)
              ELSE TRUE
          diff == env.score - env.pass_score
          score_diff == IF candidate.color = BLACK THEN diff ELSE -diff
      IN  IF opt.rule = RULE_JP /\ boundary_fixed /\ score_diff < 8
          THEN Move(PASS, TRUE)
          ELSE IF gs.player.turn < opt.resign_turn
          THEN Move(candidate.pos, FALSE)
          ELSE IF Abs(env.score) < opt.resign_score
          THEN Move(candidate.pos, FALSE)
          ELSE IF candidate.win_chance < opt.resign_threshold
          THEN Move(Resign, TRUE)
          ELSE Move(candidate.pos, FALSE)

\* GTPEngine._get_move of the running engine
get_move(gs, candidate, env) == GetMove(gs, candidate, env, Options)

(***************************************************************************)
(* gtp.py: the command handlers.  A handler maps the argument list and the *)
(* game state to the set of its possible outcomes: the returned            *)
(* (stat, message, cont), the game state it leaves, and raised = TRUE when *)
(* it ends with an exception that is not a GoException.                    *)
(***************************************************************************)
\* a message: its text, and the vertex it names (if any)
Msg(text) == <<text, << >> >>
VertexMsg(text, pos, n) == <<text, gtp_position_to_string(pos, n, n)>>

Reply(stat, message, cont, gs) ==
    [stat |-> stat, message |-> message, cont |-> cont, raised |-> FALSE, gs |-> gs]
Raised(gs) ==
    [stat |-> FALSE, message |-> Msg("exception"), cont |-> FALSE, raised |-> TRUE,
     gs |-> gs]

\* GTPEngine._create_player, and "create player object if not present"
create_player(gs) == PlayerCreate(gs.size, gs.size, gs.komi, rule, superko)
WithPlayer(gs) ==
    IF gs.player = NoPlayer THEN [gs EXCEPT !.player = create_player(gs)] ELSE gs

\* "match the color to play" of _evaluate and _random_move
MatchColor(gs, color) ==
    IF PlayerColor(gs.player) # color
    THEN [gs EXCEPT !.player = PlayerPlay(gs.player, PASS, 0)]
    ELSE gs

\* the session calls of Player.evaluate: start_evaluation, wait_evaluation
\* with stop = not ponder, and get_pass when no candidate is left
PlayerEvaluated(p, found, stop) ==
    Only({ IF Len(IF p.superko THEN DropSuperko(p, found) ELSE found) = 0
           THEN PlayerSearchedOnce(q) ELSE q
           : q \in { [p EXCEPT !.native =
                         NativeWaitEvaluation(NativeStartEvaluation(p.native), stop)] } })

\* Player.evaluate for every result the search may give
EvaluateAt(g) ==
    { [gs |-> [g EXCEPT !.player = PlayerEvaluated(g.player, found, ~ ponder)],
       candidates |-> PlayerEvaluate(g.player, found, dead)] :
        found \in SearchResults(g.player),
        dead \in IF g.player.rule = RULE_COM
                 THEN DeadSets(g.player, PlayerColor(g.player)) ELSE { {} } }

\* GTPEngine._evaluate: the game state it leaves and the candidates
evaluate(gs, color) ==
    UNION { EvaluateAt(g) : g \in { MatchColor(WithPlayer(gs), color) } }

\* Player.get_random: a sampled move, or the pass candidate
PlayerGetRandom(p) ==
    { <<PassCandidate(p)>> }
    \cup { <<Candidate(v, PlayerColor(p), 1, 0)>> :
             v \in { w \in Vertices :
                       /\ BoardIsEnabled(PlayerBoard(p), w, PlayerColor(p))
                       /\ ~ (p.superko /\ PlayerIsSuperkoMove(p, w, PlayerColor(p))) } }

RandomAt(g) ==
    { [gs |-> [g EXCEPT !.player = PlayerSearchedOnce(g.player)], candidates |-> c]
      : c \in PlayerGetRandom(g.player) }

\* GTPEngine._random_move
random_move(gs, color) ==
    UNION { RandomAt(g) : g \in { MatchColor(WithPlayer(gs), color) } }

\* "calculate move" of genmove and genmove_analyze
Calculate(gs, color) ==
    IF Len(gs.moves) < initial_turn THEN random_move(gs, color) ELSE evaluate(gs, color)

\* self.player.play(pos, color); self.moves.append((pos, color))
Advance(gs, pos, color) ==
    [gs EXCEPT !.player = PlayerPlay(gs.player, pos, color),
               !.moves = Append(gs.moves, <<pos, color>>)]

perform_command_name(args, gs) == { Reply(TRUE, Msg("Maru"), FALSE, gs) }

\* clear_board that keeps the move log
ClearBoardKeepsLog(args, gs) ==
    { Reply(TRUE, Msg(""), FALSE, [gs EXCEPT !.player = NoPlayer]) }

perform_command_clear_board(args, gs) ==
    { Reply(TRUE, Msg(""), FALSE, [gs EXCEPT !.player = NoPlayer, !.moves = << >>]) }

\* play without the is_enabled test
PlayAtUnguarded(gs, g, color, parsed) ==
    IF color = 0 THEN { Reply(FALSE, Msg("syntax error"), FALSE, gs) }
    ELSE IF ~ parsed.ok THEN { Reply(FALSE, Msg("is not vertex"), FALSE, gs) }
    ELSE IF parsed.pos = Resign THEN { Reply(FALSE, Msg("syntax error"), FALSE, gs) }
    ELSE { Reply(TRUE, Msg(""), FALSE, Advance(g, parsed.pos, color)) }

\* play, once the arguments are parsed and the Player exists
PlayAt(gs, g, color, parsed) ==
    IF color = 0 THEN { Reply(FALSE, Msg("syntax error"), FALSE, gs) }
    ELSE IF ~ parsed.ok THEN { Reply(FALSE, Msg("is not vertex"), FALSE, gs) }
    ELSE IF parsed.pos = Resign THEN { Reply(FALSE, Msg("syntax error"), FALSE, gs) }
    ELSE IF /\ is_valid_position(parsed.pos, g.size, g.size)
            /\ ~ BoardIsEnabled(PlayerBoard(g.player), parsed.pos, color)
    THEN { Reply(FALSE, Msg("illegal move"), FALSE, g) }
    ELSE { Reply(TRUE, Msg(""), FALSE, Advance(g, parsed.pos, color)) }

perform_command_play(args, gs) ==
    IF Len(args) < 2 THEN { Reply(FALSE, Msg("syntax error"), FALSE, gs) }
    ELSE UNION { PlayAt(gs, WithPlayer(gs), gtp_string_to_color(args[1]), parsed)
                 : parsed \in { gtp_string_to_position(args[2], gs.size, gs.size) } }

\* the replay loop of undo
RECURSIVE Replay(_, _)
Replay(p, ms) ==
    IF Len(ms) = 0 THEN p
    ELSE Only({ Replay(q, Tail(ms)) : q \in { PlayerPlay(p, Head(ms)[1], Head(ms)[2]) } })

perform_command_undo(args, gs) ==
    IF gs.player = NoPlayer
    THEN { Reply(FALSE, Msg("game has not started yet"), FALSE, gs) }
    ELSE IF gs.moves = << >> THEN { Reply(FALSE, Msg("cannot undo"), FALSE, gs) }
    ELSE LET ms == SubSeq(gs.moves, 1, Len(gs.moves) - 1)
         IN  { Reply(TRUE, Msg(""), FALSE,
                     [gs EXCEPT !.moves = ms,
                                !.player = Replay(PlayerInitialize(gs.player), ms)]) }

\* "self.player.stop_evaluation()" of _get_move, when it passes or resigns
AfterMove(g, m) ==
    IF m.stopped THEN [g EXCEPT !.player = PlayerStopEvaluation(g.player)] ELSE g

\* genmove from "get move coordinates" on
GenmoveReply(g, m, color, play) ==
    IF m.raised THEN Reply(FALSE, Msg("Invalid move"), FALSE, g)
    ELSE IF m.pos = Resign \/ ~ play
    THEN Reply(TRUE, VertexMsg("move", m.pos, g.size), FALSE, g)
    ELSE Reply(TRUE, VertexMsg("move", m.pos, g.size), FALSE, Advance(g, m.pos, color))

GenmoveAs(g, color, play) ==
    UNION { { GenmoveReply(AfterMove(ce[1].gs, m), m, color, play)
              : m \in { get_move(ce[1].gs, ce[1].candidates[1], ce[2]) } }
            : ce \in Calculate(g, color) \X Predictions(g.size) }

GenmoveAt(g, named, play) ==
    GenmoveAs(g, IF named = 0 THEN PlayerColor(g.player) ELSE named, play)

perform_command_genmove(args, gs, play) ==
    GenmoveAt(WithPlayer(gs), gtp_args_to_color(args), play)

perform_command_reg_genmove(args, gs) == perform_command_genmove(args, gs, FALSE)

\* the argument loop of genmove_analyze: the last colour named wins
RECURSIVE AnalyzeColor(_, _)
AnalyzeColor(args, color) ==
    IF Len(args) = 0 THEN color
    ELSE AnalyzeColor(Tail(args),
                      IF LowerChar(Head(args)[1]) = "b" THEN BLACK
                      ELSE IF LowerChar(Head(args)[1]) = "w" THEN WHITE
                      ELSE color)

\* genmove_analyze from "create move coordinates" on
AnalyzeReply(g, m, color, play) ==
    IF m.raised THEN Reply(FALSE, Msg("Invalid move"), FALSE, g)
    ELSE IF ~ play THEN Reply(TRUE, Msg("analysis"), TRUE, g)
    ELSE IF m.pos = Resign
    THEN Reply(TRUE, VertexMsg("analysis play", m.pos, g.size), FALSE, g)
    ELSE Reply(TRUE, VertexMsg("analysis play", m.pos, g.size), FALSE,
               Advance(g, m.pos, color))

AnalyzeAs(g, color, play) ==
    UNION { { AnalyzeReply(AfterMove(ce[1].gs, m), m, color, play)
              : m \in { get_move(ce[1].gs, ce[1].candidates[1], ce[2]) } }
            : ce \in (IF play THEN Calculate(g, color) ELSE evaluate(g, color))
                     \X Predictions(g.size) }

perform_command_lz_genmove_analyze(args, gs, play) ==
    AnalyzeAs(WithPlayer(gs), AnalyzeColor(args, PlayerColor(WithPlayer(gs))), play)

perform_command_lz_analyze(args, gs) == perform_command_lz_genmove_analyze(args, gs, FALSE)

\* int(args[0]) succeeds
IsInt(s) == IsDigits(s) \/ (Len(s) >= 2 /\ s[1] = "-" /\ IsDigits(Tail(s)))
ToInt(s) == IF s[1] = "-" THEN - ParseInt(Tail(s)) ELSE ParseInt(s)

\* the list of vertices fixed_handicap answers with
RECURSIVE JoinVertices(_, _)
JoinVertices(ps, n) ==
    IF Len(ps) = 0 THEN << >>
    ELSE gtp_position_to_string(Head(ps), n, n)
         \o (IF Len(ps) > 1 THEN <<" ">> ELSE << >>) \o JoinVertices(Tail(ps), n)

HandicapAt(g, handicap) ==
    { Reply(TRUE,
            <<"handicap",
              JoinVertices(get_handicap_positions(g.size, g.size, handicap), g.size)>>,
            FALSE,
            [g EXCEPT !.player = PlayerSetHandicap(g.player, handicap)]) }

perform_command_fixed_handicap(args, gs) ==
    IF Len(args) < 1 THEN { Reply(FALSE, Msg("syntax error"), FALSE, gs) }
    ELSE IF ~ IsInt(args[1]) THEN { Raised(gs) }
    ELSE IF ToInt(args[1]) < 2 \/ ToInt(args[1]) > 9
    THEN { Reply(FALSE, Msg("handicap must be between 2 and 9"), FALSE, gs) }
    ELSE HandicapAt(WithPlayer(gs), ToInt(args[1]))

\* boardsize without the test for a Player
BoardsizeAnytime(args, gs) ==
    IF Len(args) < 1 \/ ~ IsDigits(args[1])
    THEN { Reply(FALSE, Msg("syntax error"), FALSE, gs) }
    ELSE IF ParseInt(args[1]) > MODEL_SIZE
    THEN { Reply(FALSE, Msg("boardsize is too large"), FALSE, gs) }
    ELSE { Reply(TRUE, Msg(""), FALSE, [gs EXCEPT !.size = ParseInt(args[1])]) }

perform_command_boardsize(args, gs) ==
    IF Len(args) < 1 \/ ~ IsDigits(args[1])
    THEN { Reply(FALSE, Msg("syntax error"), FALSE, gs) }
    ELSE IF ParseInt(args[1]) > MODEL_SIZE
    THEN { Reply(FALSE, Msg("boardsize is too large"), FALSE, gs) }
    ELSE IF ParseInt(args[1]) # gs.size /\ gs.player # NoPlayer
    THEN { Reply(FALSE, Msg("can not change boardsize after the game starts"), FALSE, gs) }
    ELSE { Reply(TRUE, Msg(""), FALSE, [gs EXCEPT !.size = ParseInt(args[1])]) }

\* re.match(r'^\d+(\.\d+)?$', s)
IsDecimal(s) ==
    \/ IsDigits(s)
    \/ \E i \in 2 .. Len(s) - 1 :
         s[i] = "." /\ IsDigits(SubSeq(s, 1, i - 1)) /\ IsDigits(SubSeq(s, i + 1, Len(s)))

\* float(s) in tenths, for a decimal with at most one digit after the point
ParseTenths(s) ==
    IF IsDigits(s) THEN 10 * ParseInt(s)
    ELSE LET i == CHOOSE j \in 2 .. Len(s) - 1 : s[j] = "."
         IN  10 * ParseInt(SubSeq(s, 1, i - 1)) + ParseInt(SubSeq(s, i + 1, i + 1))

perform_command_komi(args, gs) ==
    IF Len(args) < 1 \/ ~ IsDecimal(args[1])
    THEN { Reply(FALSE, Msg("syntax error"), FALSE, gs) }
    ELSE LET new_komi == ParseTenths(args[1])
         IN  IF new_komi = gs.komi THEN { Reply(TRUE, Msg(""), FALSE, gs) }
             ELSE IF gs.player # NoPlayer
             THEN { Reply(TRUE, Msg(""), FALSE,
                          [gs EXCEPT !.player.komi = new_komi, !.komi = new_komi]) }
             ELSE { Reply(TRUE, Msg(""), FALSE, [gs EXCEPT !.komi = new_komi]) }

perform_command_time_settings(args, gs) ==
    IF Len(args) < 3 THEN { Reply(FALSE, Msg("syntax error"), FALSE, gs) }
    ELSE IF ~ IsInt(args[1]) THEN { Raised(gs) }
    ELSE { Reply(TRUE, Msg(""), FALSE,
                 [gs EXCEPT !.remain_times = <<ToInt(args[1]), ToInt(args[1])>>]) }

perform_command_time_left(args, gs) ==
    IF Len(args) < 3 THEN { Reply(FALSE, Msg("syntax error"), FALSE, gs) }
    ELSE IF ~ IsInt(args[2]) THEN { Raised(gs) }
    ELSE IF gtp_string_to_color(args[1]) = BLACK
    THEN { Reply(TRUE, Msg(""), FALSE, [gs EXCEPT !.remain_times[1] = ToInt(args[2])]) }
    ELSE { Reply(TRUE, Msg(""), FALSE, [gs EXCEPT !.remain_times[2] = ToInt(args[2])]) }

\* every name n for which the engine has a method _perform_command_<n>
Registry ==
    { "protocol_version", "name", "version", "known_command", "list_commands",
      "boardsize", "clear_board", "komi", "fixed_handicap", "play", "undo",
      "genmove", "reg_genmove", "lz_genmove_analyze", "lz_analyze",
      "kata_genmove_analyze", "kata_analyze", "cgos_genmove_analyze",
      "cgos_analyze", "showboard", "time_settings", "time_left",
      "final_status_list", "final_score", "gogui_analyze_commands",
      "gogui_analyze_territory", "gogui_analyze_values", "gogui_analyze_value" }

\* the method names of Registry, character by character
Spelled ==
    "protocol_version" :> <<"p", "r", "o", "t", "o", "c", "o", "l", "_", "v", "e", "r", "s", "i", "o", "n">> @@
    "name" :> <<"n", "a", "m", "e">> @@
    "version" :> <<"v", "e", "r", "s", "i", "o", "n">> @@
    "known_command" :> <<"k", "n", "o", "w", "n", "_", "c", "o", "m", "m", "a", "n", "d">> @@
    "list_commands" :> <<"l", "i", "s", "t", "_", "c", "o", "m", "m", "a", "n", "d", "s">> @@
    "boardsize" :> <<"b", "o", "a", "r", "d", "s", "i", "z", "e">> @@
    "clear_board" :> <<"c", "l", "e", "a", "r", "_", "b", "o", "a", "r", "d">> @@
    "komi" :> <<"k", "o", "m", "i">> @@
    "fixed_handicap" :> <<"f", "i", "x", "e", "d", "_", "h", "a", "n", "d", "i", "c", "a", "p">> @@
    "play" :> <<"p", "l", "a", "y">> @@
    "undo" :> <<"u", "n", "d", "o">> @@
    "genmove" :> <<"g", "e", "n", "m", "o", "v", "e">> @@
    "reg_genmove" :> <<"r", "e", "g", "_", "g", "e", "n", "m", "o", "v", "e">> @@
    "lz_genmove_analyze" :> <<"l", "z", "_", "g", "e", "n", "m", "o", "v", "e", "_", "a", "n", "a", "l", "y", "z", "e">> @@
    "lz_analyze" :> <<"l", "z", "_", "a", "n", "a", "l", "y", "z", "e">> @@
    "kata_genmove_analyze" :> <<"k", "a", "t", "a", "_", "g", "e", "n", "m", "o", "v", "e", "_", "a", "n", "a", "l", "y", "z", "e">> @@
    "kata_analyze" :> <<"k", "a", "t", "a", "_", "a", "n", "a", "l", "y", "z", "e">> @@
    "cgos_genmove_analyze" :> <<"c", "g", "o", "s", "_", "g", "e", "n", "m", "o", "v", "e", "_", "a", "n", "a", "l", "y", "z", "e">> @@
    "cgos_analyze" :> <<"c", "g", "o", "s", "_", "a", "n", "a", "l", "y", "z", "e">> @@
    "showboard" :> <<"s", "h", "o", "w", "b", "o", "a", "r", "d">> @@
    "time_settings" :> <<"t", "i", "m", "e", "_", "s", "e", "t", "t", "i", "n", "g", "s">> @@
    "time_left" :> <<"t", "i", "m", "e", "_", "l", "e", "f", "t">> @@
    "final_status_list" :> <<"f", "i", "n", "a", "l", "_", "s", "t", "a", "t", "u", "s", "_", "l", "i", "s", "t">> @@
    "final_score" :> <<"f", "i", "n", "a", "l", "_", "s", "c", "o", "r", "e">> @@
    "gogui_analyze_commands" :> <<"g", "o", "g", "u", "i", "_", "a", "n", "a", "l", "y", "z", "e", "_", "c", "o", "m", "m", "a", "n", "d", "s">> @@
    "gogui_analyze_territory" :> <<"g", "o", "g", "u", "i", "_", "a", "n", "a", "l", "y", "z", "e", "_", "t", "e", "r", "r", "i", "t", "o", "r", "y">> @@
    "gogui_analyze_values" :> <<"g", "o", "g", "u", "i", "_", "a", "n", "a", "l", "y", "z", "e", "_", "v", "a", "l", "u", "e", "s">> @@
    "gogui_analyze_value" :> <<"g", "o", "g", "u", "i", "_", "a", "n", "a", "l", "y", "z", "e", "_", "v", "a", "l", "u", "e">>

\* "hasattr(self, '_perform_command_{}'.format(...))"
HasMethod(chars) == \E n \in Registry : Spelled[n] = chars

\* GTPEngine._perform_command_known_command
perform_command_known_command(args, gs) ==
    IF Len(args) < 1 THEN { Reply(FALSE, Msg("syntax error"), FALSE, gs) }
    ELSE IF HasMethod(Lower(args[1])) THEN { Reply(TRUE, Msg("true"), FALSE, gs) }
    ELSE { Reply(TRUE, Msg("false"), FALSE, gs) }

\* "f'lz-{v[3:]}' if v.startswith('lz_') else v", and so for kata_ and cgos_
Hyphenated(v, prefix) ==
    IF Len(v) >= Len(prefix) /\ SubSeq(v, 1, Len(prefix)) = prefix
    THEN SubSeq(prefix, 1, Len(prefix) - 1) \o <<"-">> \o SubSeq(v, Len(prefix) + 1, Len(v))
    ELSE v

\* the names list_commands gives (it joins them, sorted, with newlines)
ListedCommands ==
    { Hyphenated(Hyphenated(Hyphenated(Spelled[n], <<"l", "z", "_">>),
                            <<"k", "a", "t", "a", "_">>),
                 <<"c", "g", "o", "s", "_">>) : n \in Registry }
    \cup { <<"q", "u", "i", "t">> }

\* GTPEngine._perform_command_list_commands
perform_command_list_commands(args, gs) ==
    { Reply(TRUE, <<"commands", ListedCommands>>, FALSE, gs) }

\* tokens[0].lower().replace('-', '_') on the command names of the model
MethodName(name) ==
    CASE name = "lz-analyze" -> "lz_analyze"
      [] name = "lz-genmove_analyze" -> "lz_genmove_analyze"
      [] name = "kata-analyze" -> "kata_analyze"
      [] name = "kata-genmove_analyze" -> "kata_genmove_analyze"
      [] name = "cgos-analyze" -> "cgos_analyze"
      [] name = "cgos-genmove_analyze" -> "cgos_genmove_analyze"
      [] OTHER -> name

\* unknown command, as if the lookup raised instead of returning the failure
UnknownCommandSilent(gs) == { Raised(gs) }

\* "else: return (False, 'unknown command', False)"
UnknownCommand(gs) == { Reply(FALSE, Msg("unknown command"), FALSE, gs) }

\* GTPEngine._perform_command
perform_command(command, gs) ==
    LET method == MethodName(command.name)
        args == command.args
    IN  IF method \notin Registry
        THEN UnknownCommand(gs)
        ELSE CASE method = "name" -> perform_command_name(args, gs)
               [] method = "known_command" -> perform_command_known_command(args, gs)
               [] method = "list_commands" -> perform_command_list_commands(args, gs)
               [] method = "boardsize" -> perform_command_boardsize(args, gs)
               [] method = "komi" -> perform_command_komi(args, gs)
               [] method = "clear_board" -> perform_command_clear_board(args, gs)
               [] method = "fixed_handicap" -> perform_command_fixed_handicap(args, gs)
               [] method = "play" -> perform_command_play(args, gs)
               [] method = "undo" -> perform_command_undo(args, gs)
               [] method = "genmove" -> perform_command_genmove(args, gs, TRUE)
               [] method = "reg_genmove" -> perform_command_reg_genmove(args, gs)
               [] method \in {"lz_genmove_analyze", "kata_genmove_analyze",
                              "cgos_genmove_analyze"} ->
                      perform_command_lz_genmove_analyze(args, gs, TRUE)
               [] method \in {"lz_analyze", "kata_analyze", "cgos_analyze"} ->
                      perform_command_lz_analyze(args, gs)
               [] method = "time_settings" -> perform_command_time_settings(args, gs)
               [] method = "time_left" -> perform_command_time_left(args, gs)

\* the commands that answer with cont = TRUE
Streaming == {"lz_analyze", "kata_analyze", "cgos_analyze"}

(***************************************************************************)
(* Command lines.  A line is the optional numeric id, the command name     *)
(* and the arguments.                                                      *)
(***************************************************************************)
Command(number, name, args) == [number |-> number, name |-> name, args |-> args]
NoCommand == Command("", "", << >>)

\* vertices of the 3 x 3 board, and one that is on no board
A3 == <<"A", "3">>
B3 == <<"b", "3">>
A9 == <<"A", "9">>
Black == <<"b">>
White == <<"W">>

Pass == <<"p", "a", "s", "s">>

\* the lines the client may send: commands of every kind of response
Lines ==
    { Command("", "name", << >>),
      Command("7", "name", << >>),
      Command("", "foo", << >>),
      Command("7", "play", <<Black, A9>>),
      Command("", "play", <<Black, A3>>),
      Command("", "genmove", <<White>>),
      Command("", "fixed_handicap", << <<"x">> >>),
      Command("7", "lz-analyze", <<Black>>),
      Command("", "kata-analyze", <<White>>),
      Command("", "quit", << >>) }

\* the lines the client may send: the commands that move the game
GameLines ==
    { Command("", "undo", << >>),
      Command("", "fixed_handicap", << <<"2">> >>),
      Command("", "lz-genmove_analyze", <<Black>>),
      Command("", "cgos-analyze", <<White>>) }
    \cup { Command("", "play", <<c, v>>) : c \in {Black, White}, v \in {A3, B3, Pass} }
    \cup { Command("", n, <<c>>) : n \in {"genmove", "reg_genmove"}, c \in {Black, White} }

(***************************************************************************)
(* The writer.  One element per write() call.                              *)
(***************************************************************************)
\* f'{mark}{number} {message}', or the message alone after the first response
Response(mark, number, message) ==
    [kind |-> "response", mark |-> mark, number |-> number, message |-> message]
\* '\n\n'
BlankLine == [kind |-> "end", mark |-> "", number |-> "", message |-> Msg("")]
\* f'={number}\n\n', the answer of the reader to quit
QuitResponse(number) ==
    [kind |-> "quit", mark |-> "=", number |-> number, message |-> Msg("")]

(***************************************************************************)
(* Threads                                                                 *)
(***************************************************************************)
IdleExec ==
    [pc |-> "idle", command |-> NoCommand, first_response |-> TRUE,
     cont |-> FALSE, count |-> 0]

Alive(s) == exec[s].pc \in {"perform", "check"}

NoLast == [none |-> TRUE]

Init ==
    /\ player = NoPlayer
    /\ moves = << >>
    /\ size = BoardSize
    /\ komi = DEFAULT_KOMI
    /\ remain_times = <<-1, -1>>
    /\ rule = RULE_JP
    /\ superko = TRUE
    /\ ponder = FALSE
    /\ search = NoSearch
    /\ processor = NewProcessor
    /\ thread = 0
    /\ terminated = FALSE
    /\ exec = [s \in Slots |-> IdleExec]
    /\ rpc = "read"
    /\ line = NoCommand
    /\ ncmds = 0
    /\ out = << >>
    /\ last = NoLast

(***************************************************************************)
(* GTPEngine.run: the reader                                               *)
(***************************************************************************)
\* readline() returns a command: if a thread object is present, signal
\* cancellation and go on to join it.
ReadLine(l) ==
    /\ rpc = "read"
    /\ ncmds < MaxCmds
    /\ ncmds' = ncmds + 1
    /\ line' = l
    /\ IF thread # 0
       THEN terminated' = TRUE /\ rpc' = "join"
       ELSE terminated' = terminated /\ rpc' = "dispatch"
    /\ UNCHANGED <<player, moves, size, komi, remain_times, rule, superko, ponder, search, processor, thread, exec, out, last>>

\* readline() returns a line of white space: continue
ReadEmpty ==
    /\ rpc = "read"
    /\ UNCHANGED vars

\* readline() returns '': break
ReadEOF ==
    /\ rpc = "read"
    /\ rpc' = "done"
    /\ UNCHANGED <<player, moves, size, komi, remain_times, rule, superko, ponder, search, processor, thread, terminated,
                   exec, line, ncmds, out, last>>

\* the reader going on without the join
JoinNoWait ==
    /\ rpc = "join"
    /\ rpc' = "dispatch"
    /\ UNCHANGED <<player, moves, size, komi, remain_times, rule, superko, ponder, search, processor, thread, terminated,
                   exec, line, ncmds, out, last>>

\* self.thread.join() returns once that executor has ended
Join ==
    /\ rpc = "join"
    /\ ~ Alive(thread)
    /\ rpc' = "dispatch"
    /\ UNCHANGED <<player, moves, size, komi, remain_times, rule, superko, ponder, search, processor, thread, terminated,
                   exec, line, ncmds, out, last>>

\* parse the line; answer quit, or start an executor thread for the command
Dispatch ==
    /\ rpc = "dispatch"
    /\ IF line.name = "quit"
       THEN /\ thread' = 0
            /\ out' = Append(out, QuitResponse(line.number))
            /\ rpc' = "done"
            /\ UNCHANGED <<terminated, exec>>
       ELSE /\ terminated' = FALSE
            /\ \E s \in Slots :
                 /\ ~ Alive(s)
                 /\ \A t \in Slots : t < s => Alive(t)
                 /\ exec' = [exec EXCEPT ![s] = [IdleExec EXCEPT !.pc = "perform",
                                                                 !.command = line]]
                 /\ thread' = s
            /\ rpc' = "read"
            /\ out' = out
    /\ UNCHANGED <<player, moves, size, komi, remain_times, rule, superko, ponder, search, processor, line, ncmds, last>>

(***************************************************************************)
(* GTPEngine._perform: the executor                                        *)
(***************************************************************************)
\* one turn of the loop up to the flush: run the handler, write the response;
\* an exception other than GoException ends the thread without a word.
Perform(s) ==
    /\ exec[s].pc = "perform"
    /\ \E r \in perform_command(exec[s].command, GameState) :
         /\ player' = r.gs.player
         /\ moves' = r.gs.moves
         /\ size' = r.gs.size
         /\ komi' = r.gs.komi
         /\ remain_times' = r.gs.remain_times
         /\ last' = [command |-> exec[s].command, before |-> GameState,
                     stat |-> r.stat, message |-> r.message, cont |-> r.cont,
                     raised |-> r.raised,
                     prev |-> IF last = NoLast THEN NoLast
                              ELSE [command |-> last.command, before |-> last.before,
                                    stat |-> last.stat]]
         /\ IF r.raised
            THEN /\ exec' = [exec EXCEPT ![s].pc = "done"]
                 /\ out' = out
            ELSE /\ exec' = [exec EXCEPT ![s].pc = "check",
                                         ![s].first_response = FALSE,
                                         ![s].cont = r.cont,
                                         ![s].count = @ + 1]
                 /\ out' = Append(out,
                        IF exec[s].first_response
                        THEN Response(IF r.stat THEN "=" ELSE "?",
                                      exec[s].command.number, r.message)
                        ELSE Response("", "", r.message))
    /\ UNCHANGED <<rule, superko, ponder, search, processor, thread, terminated, rpc, line, ncmds>>

\* the executor ending without the blank line
CheckNoBlank(s) ==
    /\ exec[s].pc = "check"
    /\ IF ~ exec[s].cont \/ terminated
       THEN /\ out' = out
            /\ exec' = [exec EXCEPT ![s].pc = "done"]
       ELSE /\ exec[s].count < MaxStream
            /\ out' = out
            /\ exec' = [exec EXCEPT ![s].pc = "perform"]
    /\ UNCHANGED <<player, moves, size, komi, remain_times, rule, superko, ponder, search, processor, thread, terminated,
                   rpc, line, ncmds, last>>

\* the executor looping without a look at the cancellation flag
CheckIgnoresSignal(s) ==
    /\ exec[s].pc = "check"
    /\ IF ~ exec[s].cont
       THEN /\ out' = Append(out, BlankLine)
            /\ exec' = [exec EXCEPT ![s].pc = "done"]
       ELSE /\ exec[s].count < MaxStream
            /\ out' = out
            /\ exec' = [exec EXCEPT ![s].pc = "perform"]
    /\ UNCHANGED <<player, moves, size, komi, remain_times, rule, superko, ponder, search, processor, thread, terminated,
                   rpc, line, ncmds, last>>

\* "if not cont or self.terminated": write the blank line and end, or loop
Check(s) ==
    /\ exec[s].pc = "check"
    /\ IF ~ exec[s].cont \/ terminated
       THEN /\ out' = Append(out, BlankLine)
            /\ exec' = [exec EXCEPT ![s].pc = "done"]
       ELSE /\ exec[s].count < MaxStream
            /\ out' = out
            /\ exec' = [exec EXCEPT ![s].pc = "perform"]
    /\ UNCHANGED <<player, moves, size, komi, remain_times, rule, superko, ponder, search, processor, thread, terminated,
                   rpc, line, ncmds, last>>

Next ==
    \/ \E l \in Lines : ReadLine(l)
    \/ ReadEmpty
    \/ ReadEOF
    \/ Join
    \/ Dispatch
    \/ \E s \in Slots : Perform(s)
    \/ \E s \in Slots : Check(s)

Spec == Init /\ [][Next]_vars

(***************************************************************************)
(* GTPEngine.load: the engine is started on a game record (run.py, --sgf). *)
(***************************************************************************)
\* the states a handler may leave (load ignores what the handler returns)
After(outcomes) == { r.gs : r \in outcomes }

\* "for pos, color in ...: self._perform_command_play(...)"
RECURSIVE LoadMoves(_, _)
LoadMoves(states, ms) ==
    IF Len(ms) = 0 THEN states
    ELSE LoadMoves(
           UNION { After(perform_command_play(
                           << <<IF Head(ms)[2] = BLACK THEN "b" ELSE "w">>,
                              gtp_position_to_string(Head(ms)[1], gs.size, gs.size) >>,
                           gs)) : gs \in states },
           Tail(ms))

LoadStones(states, stones) ==
    LoadMoves(states, [i \in 1 .. Len(stones) |-> <<stones[i], BLACK>>])

\* GTPEngine.load: boardsize, komi, the handicap stones, the moves
load(gs, record) ==
    LoadMoves(
      LoadStones(
        UNION { After(perform_command_komi(
                        <<FormatInt(record.km \div 10) \o <<".">>
                            \o FormatInt(record.km % 10)>>, g1))
                : g1 \in After(perform_command_boardsize(<<FormatInt(record.sz)>>, gs)) },
        get_handicap_positions(record.sz, record.sz, record.ha)),
      record.moves)

\* the records the engine is started on: none of any move, and one that
\* leaves the black stone at A3 in atari with a ko to follow
Records ==
    { [sz |-> 3, km |-> 75, ha |-> 0, moves |-> << >>],
      [sz |-> 3, km |-> 65, ha |-> 0,
       moves |-> << <<<<2, 0>>, BLACK>>, <<<<0, 1>>, WHITE>>, <<<<1, 1>>, BLACK>>,
                    <<PASS, WHITE>>, <<<<0, 0>>, BLACK>> >>] }

\* the engine as constructed: no Player, an empty log, no clock
NewGame ==
    [player |-> NoPlayer, moves |-> << >>, size |-> BoardSize, komi |-> DEFAULT_KOMI,
     remain_times |-> <<-1, -1>>]

GameInit ==
    /\ rule = RULE_JP
    /\ superko = TRUE
    /\ ponder = FALSE
    /\ search = NoSearch
    /\ processor = NewProcessor
    /\ \E gs \in UNION { load(NewGame, record)
                           : record \in Records } :
         /\ player = gs.player
         /\ moves = gs.moves
         /\ size = gs.size
         /\ komi = gs.komi
         /\ remain_times = gs.remain_times
    /\ thread = 0
    /\ terminated = FALSE
    /\ exec = [s \in Slots |-> IdleExec]
    /\ rpc = "read"
    /\ line = NoCommand
    /\ ncmds = 0
    /\ out = << >>
    /\ last = NoLast

GameNext ==
    \/ \E l \in GameLines : ReadLine(l)
    \/ ReadEmpty
    \/ ReadEOF
    \/ Join
    \/ Dispatch
    \/ \E s \in Slots : Perform(s)
    \/ \E s \in Slots : Check(s)

GameSpec == GameInit /\ [][GameNext]_vars

(***************************************************************************)
(* GTPEngine._get_move on its own: the engine is constructed under any     *)
(* rule and any resignation options, a game is under way, and _get_move    *)
(* is applied to a candidate and a prediction.                             *)
(***************************************************************************)
\* the games _get_move is asked about: no move, one, two, and a pass
MoveGames ==
    { WithPlayer(NewGame),
      Advance(WithPlayer(NewGame), <<0, 0>>, BLACK),
      Advance(Advance(WithPlayer(NewGame), <<0, 0>>, BLACK), <<1, 0>>, WHITE),
      Advance(WithPlayer(NewGame), PASS, BLACK) }

\* the resignation options the engine may be constructed with
MoveOptions ==
    { [rule |-> rule, resign_turn |-> t, resign_score |-> sc,
       resign_threshold |-> resign_threshold] : t \in {0, 2}, sc \in {0, 15} }

\* the candidates handed to _get_move
MoveCandidates ==
    { Candidate(pos, color, 1, value) :
        pos \in {<<0, 0>>, <<2, 1>>, PASS}, color \in {BLACK, WHITE},
        value \in {-100, 0, 100} }

Idle ==
    /\ thread = 0
    /\ terminated = FALSE
    /\ exec = [s \in Slots |-> IdleExec]
    /\ rpc = "read"
    /\ line = NoCommand
    /\ ncmds = 0
    /\ out = << >>
    /\ last = NoLast

MoveInit ==
    /\ rule \in {RULE_CH, RULE_JP, RULE_COM}
    /\ superko = TRUE
    /\ ponder = FALSE
    /\ search = NoSearch
    /\ processor = NewProcessor
    /\ \E gs \in MoveGames :
         /\ player = gs.player
         /\ moves = gs.moves
         /\ size = gs.size
         /\ komi = gs.komi
         /\ remain_times = gs.remain_times
    /\ Idle

\* pos, score, territories = self._get_move(candidate)
ApplyGetMove ==
    /\ last = NoLast
    /\ \E candidate \in MoveCandidates, env \in Predictions(size), opt \in MoveOptions :
         last' = [candidate |-> candidate, env |-> env, opt |-> opt,
                  move |-> GetMove(GameState, candidate, env, opt)]
    /\ UNCHANGED <<player, moves, size, komi, remain_times, rule, superko, ponder, search, processor, thread, terminated,
                   exec, rpc, line, ncmds, out>>

MoveNext == ApplyGetMove

MoveSpec == MoveInit /\ [][MoveNext]_vars

(***************************************************************************)
(* The engine before and between games: the client sets the board up.      *)
(***************************************************************************)
A1 == <<"A", "1">>

\* the lines the client may send: the commands that set a game up
SetupLines ==
    { Command("", "boardsize", <<n>>) :
        n \in { <<"2">>, <<"3">>, <<"1", "9">>, <<"2", "0">> } }
    \cup { Command("", "play", <<Black, v>>) :
             v \in { A1, Pass, <<"P", "A", "S", "S">>, <<"r", "e", "s", "i", "g", "n">>,
                     <<"R", "e", "s", "i", "g", "n">> } }
    \cup { Command("", "clear_board", << >>),
           Command("", "undo", << >>),
           Command("", "komi", << <<"6", ".", "5">> >>),
           Command("", "time_left", <<White, <<"4", "5">>, <<"0">> >>) }

SetupNext ==
    \/ \E l \in SetupLines : ReadLine(l)
    \/ ReadEmpty
    \/ ReadEOF
    \/ Join
    \/ Dispatch
    \/ \E s \in Slots : Perform(s)
    \/ \E s \in Slots : Check(s)

SetupSpec == Init /\ [][SetupNext]_vars

(***************************************************************************)
(* GTPEngine._get_timelimit on its own: the clock commands set the         *)
(* remaining times, and _evaluate asks for the budget of a colour.         *)
(***************************************************************************)
\* the times a client reports, in seconds
Seconds == { <<"0">>, <<"2", "0">>, <<"2", "1">>, <<"4", "5">>, <<"6", "0", "0">> }

TimeLines ==
    { Command("", "time_settings", <<t, <<"0">>, <<"0">> >>) : t \in Seconds }
    \cup { Command("", "time_left", <<c, t, <<"0">> >>) : c \in {Black, White}, t \in Seconds }

\* the values of the option timelimit, in fiftieths of a second
Timelimits == {0, 50, 500}

\* time_settings or time_left, as _perform_command runs it
ApplyTime ==
    /\ \E l \in TimeLines : \E r \in perform_command(l, GameState) :
         remain_times' = r.gs.remain_times
    /\ UNCHANGED <<player, moves, size, komi, rule, superko, ponder, search, processor, thread, terminated,
                   exec, rpc, line, ncmds, out, last>>

\* _evaluate: timelimit = self._get_timelimit(color)
ApplyGetTimelimit ==
    /\ \E color \in {BLACK, WHITE}, limit \in Timelimits :
         last' = [remain_times |-> remain_times, color |-> color, timelimit |-> limit,
                  budget |-> GetTimelimit(remain_times, limit, color)]
    /\ UNCHANGED <<player, moves, size, komi, remain_times, rule, superko, ponder, search, processor, thread,
                   terminated, exec, rpc, line, ncmds, out>>

TimeNext == ApplyTime \/ ApplyGetTimelimit

TimeSpec == Init /\ [][TimeNext]_vars

(***************************************************************************)
(* The vertex codec on its own: on a board of any size the engine accepts, *)
(* a position is formatted and the text is parsed again.                   *)
(***************************************************************************)
\* the engine after boardsize n, for the boards of 1 x 1 to 19 x 19
SizedInit ==
    /\ player = NoPlayer
    /\ moves = << >>
    /\ size \in 1 .. MODEL_SIZE
    /\ komi = DEFAULT_KOMI
    /\ remain_times = <<-1, -1>>
    /\ rule = RULE_CH
    /\ superko = FALSE
    /\ ponder = FALSE
    /\ search = NoSearch
    /\ processor = NewProcessor
    /\ Idle

\* gtp_string_to_position(gtp_position_to_string(v, size, size), size, size)
ApplyVertex ==
    /\ last = NoLast
    /\ \E v \in Points(size, size) \cup {PASS, Resign} :
         \E text \in { gtp_position_to_string(v, size, size) } :
           last' = [v |-> v, text |-> text,
                    back |-> gtp_string_to_position(text, size, size)]
    /\ UNCHANGED <<player, moves, size, komi, remain_times, rule, superko, ponder, search, processor, thread,
                   terminated, exec, rpc, line, ncmds, out>>

VertexNext == ApplyVertex

VertexSpec == SizedInit /\ [][VertexNext]_vars

(***************************************************************************)
(* fixed_handicap on its own: the first command on a board of any size the *)
(* engine accepts.                                                         *)
(***************************************************************************)
\* the numbers of stones a client asks for
Handicaps == { FormatInt(n) : n \in 0 .. 10 }

\* what _perform leaves of a handler's answer
Outcome(command, before, r) ==
    [command |-> command, before |-> before, stat |-> r.stat, message |-> r.message,
     cont |-> r.cont, raised |-> r.raised, prev |-> NoLast]

\* _perform_command('fixed_handicap', [n])
ApplyHandicap ==
    /\ last = NoLast
    /\ \E n \in Handicaps :
         \E r \in perform_command(Command("", "fixed_handicap", <<n>>), GameState) :
           /\ player' = r.gs.player
           /\ moves' = r.gs.moves
           /\ size' = r.gs.size
           /\ komi' = r.gs.komi
           /\ remain_times' = r.gs.remain_times
           /\ last' = Outcome(Command("", "fixed_handicap", <<n>>), GameState, r)
    /\ UNCHANGED <<rule, superko, ponder, search, processor, thread, terminated, exec, rpc, line, ncmds, out>>

HandicapNext == ApplyHandicap

HandicapSpec == SizedInit /\ [][HandicapNext]_vars

(***************************************************************************)
(* Player.evaluate on its own: a Player of any rule, with or without       *)
(* superko, in a game under way, evaluates what the native search found.   *)
(***************************************************************************)
\* the game of the second record, then White takes the ko and passes:
\* Black's recapture at A3 would repeat a position
KoGame ==
    Advance(Advance(Only(load(NewGame, CHOOSE r \in Records : Len(r.moves) > 0)),
                    <<1, 0>>, WHITE),
            PASS, WHITE)

\* the games evaluate is called in
EvalGames ==
    { WithPlayer(NewGame),
      Advance(WithPlayer(NewGame), <<0, 0>>, BLACK),
      Only(load(NewGame, CHOOSE r \in Records : Len(r.moves) > 0)),
      KoGame }

EvalInit ==
    /\ rule \in {RULE_CH, RULE_JP, RULE_COM}
    /\ superko \in BOOLEAN
    /\ ponder = FALSE
    /\ search = NoSearch
    /\ processor = NewProcessor
    /\ \E gs \in EvalGames :
         /\ player = gs.player
         /\ moves = gs.moves
         /\ size = gs.size
         /\ komi = gs.komi
         /\ remain_times = gs.remain_times
    /\ Idle

\* candidates = self.player.evaluate(..., criterion=...)
ApplyEvaluate ==
    /\ last = NoLast
    /\ \E found \in SearchResults(player), by \in {"lcb", "visits"},
          dead \in DeadSets(player, PlayerColor(player)) :
         last' = [found |-> found, by |-> by, dead |-> dead,
                  candidates |-> PlayerEvaluateBy(player, found, by, dead)]
    /\ UNCHANGED <<player, moves, size, komi, remain_times, rule, superko, ponder, search, processor, thread,
                   terminated, exec, rpc, line, ncmds, out>>

EvalNext == ApplyEvaluate

EvalSpec == EvalInit /\ [][EvalNext]_vars

(***************************************************************************)
(* Player.get_random on its own: the loop over the samples of the native   *)
(* player, one turn of the loop per step.  `last` holds the locals.        *)
(***************************************************************************)
\* range(10)
Samples == 10

\* what NativePlayer.get_random may sample: Pass or a legal point
RandomSamples(p) ==
    { Candidate(v, PlayerColor(p), 1, 0) :
        v \in {PASS} \cup { w \in DOMAIN PlayerBoard(p).cells :
                              BoardIsEnabled(PlayerBoard(p), w, PlayerColor(p)) } }

\* "candidate.pos[0] == 0 or candidate.pos[0] == self.width - 1 or ..."
Outermost(p, pos) ==
    \/ pos[1] = 0 \/ pos[1] = p.width - 1
    \/ pos[2] = 0 \/ pos[2] = p.height - 1

\* one turn of the loop of get_random on the sample c: the candidate it
\* leaves, and whether the loop goes on
RandomTurn(p, c, allow_outermost) ==
    IF ~ is_valid_position(c.pos, p.width, p.height)
    THEN [candidate |-> c, break |-> TRUE]
    ELSE IF p.superko /\ PlayerIsSuperkoMove(p, c.pos, c.color)
    THEN [candidate |-> PassCandidate(p), break |-> FALSE]
    ELSE IF ~ allow_outermost /\ Outermost(p, c.pos)
    THEN [candidate |-> c, break |-> FALSE]
    ELSE [candidate |-> c, break |-> TRUE]

\* get_random is called: start_evaluation, wait_evaluation
StartRandom ==
    /\ last = NoLast
    /\ \E allow_outermost \in BOOLEAN :
         last' = [allow_outermost |-> allow_outermost, turns |-> 0,
                  candidate |-> NoLast, returned |-> FALSE]
    /\ UNCHANGED <<player, moves, size, komi, remain_times, rule, superko, ponder, search, processor, thread,
                   terminated, exec, rpc, line, ncmds, out>>

\* "for _ in range(10): candidate = Candidate(*self.native.get_random(...))"
SampleRandom ==
    /\ last # NoLast
    /\ ~ last.returned
    /\ last.turns < Samples
    /\ \E c \in RandomSamples(player) :
         \E t \in { RandomTurn(player, c, last.allow_outermost) } :
           last' = [last EXCEPT !.turns = @ + 1, !.candidate = t.candidate,
                                !.returned = t.break]
    /\ UNCHANGED <<player, moves, size, komi, remain_times, rule, superko, ponder, search, processor, thread,
                   terminated, exec, rpc, line, ncmds, out>>

\* the loop has run out: "return candidate"
ReturnRandom ==
    /\ last # NoLast
    /\ ~ last.returned
    /\ last.turns = Samples
    /\ last' = [last EXCEPT !.returned = TRUE]
    /\ UNCHANGED <<player, moves, size, komi, remain_times, rule, superko, ponder, search, processor, thread,
                   terminated, exec, rpc, line, ncmds, out>>

RandomNext == StartRandom \/ SampleRandom \/ ReturnRandom

RandomSpec == EvalInit /\ [][RandomNext]_vars

(***************************************************************************)
(* Properties                                                              *)
(***************************************************************************)
Running == { s \in Slots : Alive(s) }
IsStream(command) == MethodName(command.name) \in Streaming
Ran(names) == last # NoLast /\ MethodName(last.command.name) \in names
Mark(stat) == IF stat THEN "=" ELSE "?"

\* the game as a client sees it: board, side to move, counts, turn, move log
Position(gs) ==
    [cells |-> PlayerBoard(gs.player).cells, color |-> PlayerColor(gs.player),
     moves |-> gs.player.moves, captureds |-> gs.player.captureds,
     turn |-> gs.player.turn, log |-> gs.moves]

\* the arguments of the last play, as the handler reads them
LastColor == gtp_string_to_color(last.command.args[1])
LastVertex ==
    gtp_string_to_position(last.command.args[2], last.before.size, last.before.size)
LastPlayOnBoard ==
    /\ Ran({"play"})
    /\ Len(last.command.args) >= 2
    /\ LastColor # 0
    /\ LastVertex.ok
    /\ LastVertex.pos # Resign
    /\ is_valid_position(LastVertex.pos, last.before.size, last.before.size)

\* C1: at most one executor thread is alive at any time; the reader that
\* finds an executor running sets the cancellation flag, waits in join, and
\* starts the next executor only when none is alive.
C1_OneExecutor ==
    /\ Cardinality(Running) <= 1
    /\ rpc = "join" => terminated
    /\ rpc = "dispatch" => Running = {}

\* a command has been read while a streaming executor is running
C1_Witness == rpc = "join" /\ terminated /\ Alive(thread) /\ exec[thread].cont

\* C2: the output is never interleaved: a response with a header starts the
\* output or follows a blank line, a response without header and a blank
\* line follow a response, and an executor that has yet to answer finds the
\* output empty or closed by the blank line of the command before it.  So a
\* stream cut by a command shows its lines, its blank line, then the answer.
C2_Ordered ==
    /\ \A i \in 1 .. Len(out) :
         /\ (out[i].kind \in {"response", "quit"} /\ out[i].mark # "")
              => (i = 1 \/ out[i - 1].kind = "end")
         /\ (out[i].kind = "response" /\ out[i].mark = "")
              => (i > 1 /\ out[i - 1].kind = "response")
         /\ out[i].kind = "end" => (i > 1 /\ out[i - 1].kind = "response")
    /\ \A s \in Slots :
         (exec[s].pc = "perform" /\ exec[s].first_response)
           => (out = << >> \/ out[Len(out)].kind = "end")

\* two lines of a stream, its blank line, the answer of name and its blank line
C2_Witness ==
    /\ Len(out) >= 5
    /\ out[1] = Response("=", "7", Msg("analysis"))
    /\ out[2] = Response("", "", Msg("analysis"))
    /\ out[3] = BlankLine
    /\ out[4] = Response("=", "", Msg("Maru"))
    /\ out[5] = BlankLine

\* C3: a streaming command never ends on its own: every response asks to
\* continue, the executor ends only with the cancellation flag set and
\* then writes exactly one blank line, it writes no line after one written
\* with the flag set, and only its first response has the header.
C3_Stream ==
    [][\A s \in Slots : IsStream(exec[s].command) =>
         /\ (exec[s].pc = "perform" /\ exec'[s] # exec[s]) =>
              /\ exec'[s].pc = "check"
              /\ exec'[s].cont
              /\ out' = Append(out, Response(IF exec[s].count = 0 THEN "=" ELSE "",
                                             IF exec[s].count = 0
                                             THEN exec[s].command.number ELSE "",
                                             Msg("analysis")))
         /\ (exec[s].pc = "check" /\ exec'[s].pc = "done") =>
              (terminated /\ out' = Append(out, BlankLine))
         /\ (exec[s].pc = "check" /\ terminated) => exec'[s].pc # "perform"
      ]_vars

\* a stream of two lines has been cancelled and has ended with its blank line
C3_Witness ==
    \E s \in Slots :
      /\ IsStream(exec[s].command)
      /\ exec[s].pc = "done"
      /\ exec[s].count = 2
      /\ out[Len(out)] = BlankLine

\* C4: a command that does not stream is answered exactly once: when its
\* executor has ended, the output ends with '=<id> <message>' or
\* '?<id> <message>' of that command and a blank line.
C4_OneResponse ==
    (thread # 0 /\ exec[thread].pc = "done" /\ ~ IsStream(exec[thread].command))
      => /\ exec[thread].count = 1
         /\ Len(out) >= 2
         /\ out[Len(out) - 1] = Response(Mark(last.stat), exec[thread].command.number,
                                         last.message)
         /\ out[Len(out)] = BlankLine

\* the vertex of play is on no board: gtp_string_to_position raises GoException
LastNotVertex ==
    /\ Ran({"play"})
    /\ Len(last.command.args) >= 2
    /\ LastColor # 0
    /\ ~ LastVertex.ok

\* what every failure of the two kinds shows
Failed ==
    /\ ~ last.raised
    /\ ~ last.stat
    /\ ~ last.cont
    /\ GameState = last.before
    /\ (thread # 0 /\ exec[thread].pc = "check")
         => out[Len(out)] = Response("?", last.command.number, last.message)

\* C5: a GoException in a handler and a command that is not in the registry
\* are answered '?<id> <message>' ('unknown command' for the latter), leave
\* the game state as it was, and do not end the reader: its loop ends only
\* at the end of the input or at quit.
C5_Failure ==
    /\ [](LastNotVertex => (Failed /\ last.message[1] = "is not vertex"))
    /\ []((last # NoLast /\ MethodName(last.command.name) \notin Registry)
            => (Failed /\ last.message = Msg("unknown command")))
    /\ [][(rpc # "done" /\ rpc' = "done") =>
            (rpc = "read" \/ (rpc = "dispatch" /\ line.name = "quit"))]_vars

\* both failures have been answered and a later command has succeeded
C5_Witness ==
    \E i, j, k \in 1 .. Len(out) :
      /\ i < j /\ j < k
      /\ out[i].mark = "?" /\ out[i].number = "7" /\ out[i].message[1] = "is not vertex"
      /\ out[j].mark = "?" /\ out[j].message = Msg("unknown command")
      /\ out[k].kind = "response" /\ out[k].mark = "="

\* C6: play on a point of the board that is not legal for the colour is
\* answered '? illegal move' and leaves the Player (board, side to move,
\* turn, counts, histories) and the move log as they were.
C6_IllegalPlay ==
    (/\ LastPlayOnBoard
     /\ ~ BoardIsEnabled(PlayerBoard(WithPlayer(last.before).player),
                         LastVertex.pos, LastColor))
      => /\ ~ last.stat
         /\ ~ last.raised
         /\ last.message = Msg("illegal move")
         /\ GameState
              = last.before

\* play on the empty point the ko forbids has been refused
C6_Witness ==
    /\ LastPlayOnBoard
    /\ last.before.player # NoPlayer
    /\ PlayerBoard(last.before.player).cells[LastVertex.pos] = EMPTY
    /\ PlayerBoard(last.before.player).ko[LastColor] = LastVertex.pos
    /\ last.message = Msg("illegal move")

\* C7: with superko, play accepts no move on the board whose fingerprint is
\* already in histories.
C7_SuperkoPlay ==
    (LastPlayOnBoard /\ superko /\ last.stat /\ last.before.player # NoPlayer)
      => BoardPatterns(PlayerBoard(player)) \notin last.before.player.histories

\* C8: after a successful undo that follows the command which logged the
\* last move, the game is the one that command found.
C8_Undo ==
    (/\ Ran({"undo"})
     /\ last.stat
     /\ last.prev # NoLast
     /\ last.prev.stat
     /\ Len(last.before.moves) = Len(last.prev.before.moves) + 1)
      => Position(GameState)
           = Position(WithPlayer(last.prev.before))

\* the colour genmove and genmove_analyze are asked for
LastAsked ==
    IF MethodName(last.command.name) = "genmove"
    THEN IF gtp_args_to_color(last.command.args) = 0
         THEN PlayerColor(WithPlayer(last.before).player)
         ELSE gtp_args_to_color(last.command.args)
    ELSE AnalyzeColor(last.command.args, PlayerColor(WithPlayer(last.before).player))

\* C9: genmove and genmove_analyze play the move they answer: the vertex of
\* the reply is the last entry of the log, with the colour asked for, and
\* the Player is the one before the command advanced by that move; on
\* resign the board and the log are as before.
C9_Genmove ==
    (Ran({"genmove", "lz_genmove_analyze"}) /\ last.stat /\ ~ last.raised)
      => IF last.message[2] = gtp_position_to_string(Resign, size, size)
         THEN /\ moves = last.before.moves
              /\ PlayerBoard(player).cells
                   = PlayerBoard(WithPlayer(last.before).player).cells
         ELSE \E pos \in Vertices \cup {PASS} :
                /\ last.message[2] = gtp_position_to_string(pos, size, size)
                /\ moves = Append(last.before.moves, <<pos, LastAsked>>)
                /\ player = PlayerPlay(WithPlayer(last.before).player, pos, LastAsked)

\* C10: reg_genmove and the analyze commands leave the move log, the board,
\* the side to move, the turn counter and histories as they were.
C10_NoChange ==
    (Ran({"reg_genmove"} \cup Streaming) /\ ~ last.raised)
      => /\ moves = last.before.moves
         /\ PlayerBoard(player).cells = PlayerBoard(WithPlayer(last.before).player).cells
         /\ PlayerColor(player) = PlayerColor(WithPlayer(last.before).player)
         /\ player.turn = WithPlayer(last.before).player.turn
         /\ player.histories = WithPlayer(last.before).player.histories

\* what _get_move was asked, in the terms of the resignation rule
Moved == last # NoLast /\ ~ last.move.raised
TooEarly == player.turn < last.opt.resign_turn
TooClose == Abs(last.env.score) < last.opt.resign_score
Hopeless == last.candidate.win_chance < last.opt.resign_threshold
Resigned == last.move.pos = Resign

\* no empty point has a neighbour with another predicted owner
Settled ==
    \A p \in DOMAIN PlayerBoard(player).cells :
      PlayerBoard(player).cells[p] = EMPTY =>
        \A q \in Neighbours(PlayerBoard(player).cells, p) :
          last.env.owners[q] = last.env.owners[p]

\* what the candidate gains over a pass, for the colour that moves
MoverGain ==
    last.candidate.color * (last.env.score - last.env.pass_score)

NoPassYet == \A i \in 1 .. Len(moves) : moves[i][1] # PASS

\* _get_move has answered Pass in place of the candidate
Replaced == last.move.pos = PASS /\ last.move.stopped

\* C11 (as stated): no resignation below resign_turn or below resign_score,
\* and otherwise resignation, with the evaluation stopped, exactly when
\* the win chance of the candidate is below resign_threshold.
C11_ResignRule ==
    Moved =>
      /\ TooEarly => ~ Resigned
      /\ TooClose => ~ Resigned
      /\ (~ TooEarly /\ ~ TooClose) => (Resigned <=> Hopeless)
      /\ Resigned => last.move.stopped

\* C11 (amended): the same, where the candidate has not been replaced by
\* the Pass of the Japanese rule: a replaced candidate is never resigned.
C11_ResignUnlessPass ==
    Moved =>
      /\ TooEarly => ~ Resigned
      /\ TooClose => ~ Resigned
      /\ (~ TooEarly /\ ~ TooClose /\ ~ Replaced) => (Resigned <=> Hopeless)
      /\ Replaced => ~ Resigned
      /\ Resigned => last.move.stopped

\* a resignation under the Japanese rule, past resign_turn = 2
C11_Witness ==
    /\ Moved
    /\ rule = RULE_JP
    /\ last.opt.resign_turn = 2
    /\ Resigned
    /\ last.move.stopped

\* C12: under the Japanese rule with no pass in the log, the candidate is
\* replaced by Pass exactly when the boundary is settled and the candidate
\* gains less than 0.8 over a pass; under the other rules it never is.
C12_AutoPass ==
    Moved =>
      /\ (rule = RULE_JP /\ NoPassYet) => (Replaced <=> (Settled /\ MoverGain < 8))
      /\ rule # RULE_JP => ~ Replaced

\* an on-board candidate replaced by Pass, and one kept on an unsettled board
C12_Witness ==
    /\ Moved
    /\ rule = RULE_JP
    /\ NoPassYet
    /\ last.candidate.pos # PASS
    /\ Replaced
    /\ Len(moves) = 2

\* the remaining time of the colour _get_timelimit was asked about
Budgeted == last # NoLast
Remaining == IF last.color = BLACK THEN last.remain_times[1] ELSE last.remain_times[2]

\* C13: the budget of a colour with R >= 0 seconds left is
\* max(min(timelimit, (R - 20) * 0.02), 0) and with R < 0 it is timelimit;
\* it lies between 0 and timelimit, is 0 for 0 <= R <= 20, and R is the
\* remaining time of the colour asked to move.
C13_Budget ==
    Budgeted =>
      /\ Remaining >= 0 =>
           last.budget = (IF Remaining - 20 <= 0 THEN 0
                          ELSE IF Remaining - 20 >= last.timelimit THEN last.timelimit
                          ELSE Remaining - 20)
      /\ Remaining < 0 => last.budget = last.timelimit
      /\ last.budget >= 0 /\ last.budget <= last.timelimit
      /\ (Remaining >= 0 /\ Remaining <= 20) => last.budget = 0

\* White has 45 seconds and Black 600: White is given 25 fiftieths
C13_Witness ==
    /\ Budgeted
    /\ last.color = WHITE
    /\ last.remain_times = <<600, 45>>
    /\ last.timelimit = 500
    /\ last.budget = 25

\* the size the last boardsize asked for
LastSize == ParseInt(last.command.args[1])
LastBoardsize ==
    Ran({"boardsize"}) /\ Len(last.command.args) >= 1 /\ IsDigits(last.command.args[1])

\* C14: boardsize n is rejected when n > 19 and when a Player exists and n
\* is not the current size, and then changes nothing; an accepted one sets
\* the size to n and nothing else.  The size never changes while a Player
\* exists, and the board of a Player has the size of the engine.
C14_Boardsize ==
    /\ [](LastBoardsize =>
            IF LastSize > 19 \/ (last.before.player # NoPlayer /\ LastSize # last.before.size)
            THEN ~ last.stat /\ GameState = last.before
            ELSE last.stat /\ GameState = [last.before EXCEPT !.size = LastSize])
    /\ [](player # NoPlayer => player.width = size /\ player.height = size)
    /\ [][player # NoPlayer => size' = size]_vars

\* another size has been refused in a game under way
C14_Witness ==
    /\ LastBoardsize
    /\ last.before.player # NoPlayer
    /\ LastSize = 2
    /\ last.before.size = 19
    /\ ~ last.stat

C16_Lifecycle ==
    /\ Ran({"clear_board"}) => player # NoPlayer
    /\ (Ran({"undo"}) /\ last.prev # NoLast /\ last.prev.command.name = "clear_board")
         => last.message # Msg("game has not started yet")
    /\ (last # NoLast /\ last.command.name # "clear_board" /\ last.before.player # NoPlayer)
         => player # NoPlayer

\* C17: after a successful komi x the komi of the engine is x and so is
\* every komi the existing Player holds, that of its search session too.
C17_Komi ==
    (Ran({"komi"}) /\ last.stat) =>
      /\ komi = ParseTenths(last.command.args[1])
      /\ player # NoPlayer => player.komi = komi /\ player.native.komi = komi

\* C18: play of a colour with the keyword pass or resign, in any letter
\* case, is answered with a success.
C18_PlayKeywords ==
    (/\ Ran({"play"})
     /\ Len(last.command.args) >= 2
     /\ LastColor # 0
     /\ Lower(last.command.args[2]) \in { Pass, <<"r", "e", "s", "i", "g", "n">> })
      => last.stat /\ ~ last.raised

\* C19: on every board of size N <= 19 a point that is formatted and parsed
\* again is the same point; no formatted vertex has the letter I; Pass is
\* formatted as PASS, which parses to Pass, and None as resign, which
\* parses to None.
C19_RoundTrip ==
    last # NoLast =>
      /\ last.back.ok
      /\ last.back.pos = last.v
      /\ ~ Occurs(last.text, "I")
      /\ last.v = PASS => last.text = <<"P", "A", "S", "S">>
      /\ last.v = Resign => last.text = <<"r", "e", "s", "i", "g", "n">>

\* the point of column T on the 19 x 19 board has made the round trip
C19_Witness ==
    /\ last # NoLast
    /\ size = 19
    /\ last.v = <<18, 0>>
    /\ last.text = <<"T", "1", "9">>
    /\ last.back.pos = <<18, 0>>

\* the last fixed_handicap, the number it was given and the points it names
LastHandicap == Ran({"fixed_handicap"}) /\ ~ last.raised
Stones == ParseInt(last.command.args[1])
StarPoints == get_handicap_positions(size, size, Stones)
StarLine == IF size >= 13 THEN 3 ELSE 2
OnStarLine(c) == c \in {StarLine, size - StarLine - 1, size \div 2}
BlackStones == { p \in DOMAIN PlayerBoard(player).cells : PlayerBoard(player).cells[p] = BLACK }

\* C20: fixed_handicap n with n outside 2..9 is refused and changes
\* nothing; with n in 2..9 it leaves exactly n black stones, on n distinct
\* star points of the board, and answers with exactly those n vertices,
\* on a board of every size the engine accepts.
C20_Handicap ==
    LastHandicap =>
      IF Stones < 2 \/ Stones > 9
      THEN ~ last.stat /\ GameState = last.before
      ELSE /\ last.stat
           /\ Len(StarPoints) = Stones
           /\ \A i, j \in 1 .. Stones : i # j => StarPoints[i] # StarPoints[j]
           /\ \A i \in 1 .. Stones :
                /\ is_valid_position(StarPoints[i], size, size)
                /\ OnStarLine(StarPoints[i][1]) /\ OnStarLine(StarPoints[i][2])
           /\ BlackStones = { StarPoints[i] : i \in 1 .. Stones }
           /\ Cardinality(BlackStones) = Stones
           /\ last.message[2] = JoinVertices(StarPoints, size)

\* what evaluate was given and what it returned
Evaluated == last # NoLast
Returned == last.candidates
SortKey(c) == IF last.by = "visits" THEN c.visits ELSE c.win_chance_lcb
BestFirst == \A i, j \in 1 .. Len(Returned) : i < j => SortKey(Returned[i]) >= SortKey(Returned[j])
\* the search found nothing, or nothing the superko filter lets through
NothingLeft ==
    \A i \in 1 .. Len(last.found) :
      superko /\ PlayerIsSuperkoMove(player, last.found[i].pos, last.found[i].color)

\* C21 (as stated): evaluate returns a non-empty list, best first by the
\* criterion, and the single Pass candidate when the search found nothing
\* or everything it found was filtered out.
C21_Evaluate ==
    Evaluated =>
      /\ Len(Returned) >= 1
      /\ BestFirst
      /\ NothingLeft => Returned = <<PassCandidate(player)>>

\* C21 (amended): the same, where under the Computer rule the single Pass
\* candidate may carry the cleanup move in place of Pass.
C21_EvaluateOrCleanup ==
    Evaluated =>
      /\ Len(Returned) >= 1
      /\ BestFirst
      /\ NothingLeft =>
           /\ Len(Returned) = 1
           /\ [Returned[1] EXCEPT !.pos = PASS] = PassCandidate(player)
           /\ rule # RULE_COM => Returned[1].pos = PASS
           /\ rule = RULE_COM =>
                Returned[1].pos = PlayerGetCleanupPosition(player, PlayerColor(player), last.dead)

\* the only move the search found repeats a position, and Pass is returned
C21_Witness ==
    /\ Evaluated
    /\ Len(last.found) = 1
    /\ last.found[1].pos = <<0, 0>>
    /\ NothingLeft
    /\ Returned = <<PassCandidate(player)>>

\* C22: with superko no candidate that evaluate returns is a superko move,
\* under every rule.
C22_NoSuperko ==
    (Evaluated /\ superko) =>
      \A i \in 1 .. Len(Returned) :
        ~ PlayerIsSuperkoMove(player, Returned[i].pos, Returned[i].color)

\* get_random has returned
RandomReturned == last # NoLast /\ last.returned

\* C23: get_random returns Pass or a sampled move that passed the filters:
\* without allow_outermost no move on the outermost line, with superko no
\* superko move, and Pass when all ten samples were rejected.
C23_Random ==
    RandomReturned =>
      /\ last.candidate.pos # PASS =>
           /\ is_valid_position(last.candidate.pos, player.width, player.height)
           /\ ~ last.allow_outermost => ~ Outermost(player, last.candidate.pos)
           /\ superko =>
                ~ PlayerIsSuperkoMove(player, last.candidate.pos, last.candidate.color)
      /\ (last.turns = Samples
          /\ RandomTurn(player, last.candidate, last.allow_outermost).break = FALSE)
           => last.candidate.pos = PASS

(***************************************************************************)
(* The engine with or without pondering (run.py --ponder): the commands    *)
(* that search and the commands that change the game.                      *)
(***************************************************************************)
PonderInit ==
    /\ rule = RULE_CH
    /\ superko = FALSE
    /\ ponder \in BOOLEAN
    /\ search = NoSearch
    /\ processor = NewProcessor
    /\ player = NoPlayer
    /\ moves = << >>
    /\ size = BoardSize
    /\ komi = DEFAULT_KOMI
    /\ remain_times = <<-1, -1>>
    /\ Idle

PonderLines ==
    { Command("", "undo", << >>),
      Command("", "clear_board", << >>),
      Command("", "fixed_handicap", << <<"2">> >>),
      Command("", "play", <<White, B3>>),
      Command("", "reg_genmove", <<White>>) }
    \cup { Command("", "genmove", <<c>>) : c \in {Black, White} }

PonderNext ==
    \/ \E l \in PonderLines : ReadLine(l)
    \/ ReadEmpty
    \/ ReadEOF
    \/ Join
    \/ Dispatch
    \/ \E s \in Slots : Perform(s)
    \/ \E s \in Slots : Check(s)

PonderSpec == PonderInit /\ [][PonderNext]_vars

\* a search session of the Player is running
Searching == player # NoPlayer /\ player.native.searching

\* C24: a move is applied to the Player (play, genmove, the replay of undo,
\* the handicap stones) only while no search session is running: a session
\* that is active, also one left by evaluate under ponder, is stopped first.
C24_Serialized == player # NoPlayer => ~ player.native.raced

\* C25: at most one search session per Player is active: evaluate, get_pass
\* and get_random start a session only when none is running, also after an
\* evaluate under ponder.
C25_OneSession == player # NoPlayer => ~ player.native.overlapped

(***************************************************************************)
(* player.py: the final score.  Arrays are indexed as numpy indexes them,  *)
(* by <<y, x>>; shape is <<height, width>>.                                *)
(***************************************************************************)
\* "for pos in ((y - 1, x), (y + 1, x), (y, x - 1), (y, x + 1))" of get_area_color
AreaLookAt(territories, shape, pos, st) ==
    IF pos \in st.checked THEN st
    ELSE IF ~ is_valid_position(pos, shape[2], shape[1])
    THEN [st EXCEPT !.checked = @ \cup {pos}]
    ELSE IF territories[pos] = EMPTY
    THEN [st EXCEPT !.checked = @ \cup {pos}, !.stack = Append(@, pos)]
    ELSE IF st.color = EMPTY \/ territories[pos] = st.color
    THEN [st EXCEPT !.checked = @ \cup {pos}, !.color = territories[pos]]
    ELSE [st EXCEPT !.checked = @ \cup {pos}, !.single = FALSE]

RECURSIVE AreaLook(_, _, _, _)
AreaLook(territories, shape, around, st) ==
    IF Len(around) = 0 THEN st
    ELSE AreaLook(territories, shape, Tail(around),
                  AreaLookAt(territories, shape, Head(around), st))

\* "y, x = stack.pop(); positions.append((y, x))"
AreaPop(st) ==
    [st EXCEPT !.stack = SubSeq(@, 1, Len(@) - 1),
               !.positions = Append(@, st.stack[Len(st.stack)])]

AreaAround(yx) ==
    << <<yx[1] - 1, yx[2]>>, <<yx[1] + 1, yx[2]>>, <<yx[1], yx[2] - 1>>, <<yx[1], yx[2] + 1>> >>

\* "while len(stack) > 0"
RECURSIVE AreaWalk(_, _, _)
AreaWalk(territories, shape, st) ==
    IF Len(st.stack) = 0 THEN st
    ELSE AreaWalk(territories, shape,
                  AreaLook(territories, shape, AreaAround(st.stack[Len(st.stack)]),
                           AreaPop(st)))

AreaStart(position) ==
    [stack |-> <<position>>, checked |-> {}, positions |-> << >>, color |-> EMPTY,
     single |-> TRUE]

\* get_area_color that returns the colour seen, single or not
AreaColorSeen(territories, shape, position) ==
    IF territories[position] # EMPTY
    THEN [color |-> territories[position], positions |-> << >>]
    ELSE Only({ [color |-> st.color, positions |-> st.positions]
                : st \in { AreaWalk(territories, shape, AreaStart(position)) } })

\* get_area_color(territories, position): the colour of the area and its positions
get_area_color(territories, shape, position) ==
    IF territories[position] # EMPTY
    THEN [color |-> territories[position], positions |-> << >>]
    ELSE Only({ [color |-> IF st.single THEN st.color ELSE EMPTY,
                 positions |-> st.positions]
                : st \in { AreaWalk(territories, shape, AreaStart(position)) } })

\* np.ndindex(territories.shape)
NdIndex(shape) ==
    [i \in 1 .. shape[1] * shape[2] |-> <<(i - 1) \div shape[2], (i - 1) % shape[2]>>]

\* "for pos in positions: territories[pos] = color"
AreaFilled(territories, area) ==
    [q \in DOMAIN territories |->
       IF \E i \in 1 .. Len(area.positions) : area.positions[i] = q
       THEN area.color ELSE territories[q]]

AreaChecked(checked, area) ==
    checked \cup { area.positions[i] : i \in 1 .. Len(area.positions) }

\* the loop of get_final_score under the Chinese rule
RECURSIVE FillAreas(_, _, _, _)
FillAreas(territories, shape, todo, checked) ==
    IF Len(todo) = 0 THEN territories
    ELSE IF Head(todo) \in checked \/ territories[Head(todo)] # EMPTY
    THEN FillAreas(territories, shape, Tail(todo), checked)
    ELSE Only({ FillAreas(AreaFilled(territories, area), shape, Tail(todo),
                          AreaChecked(checked, area))
                : area \in { get_area_color(territories, shape, Head(todo)) } })

\* Board.get_colors()
BoardColors(p) ==
    [q \in Points(p.height, p.width) |-> PlayerBoard(p).cells[<<q[2], q[1]>>]]

\* "territories += (territories == 0).astype(np.int32) * colors"
ReflectSeki(territories, colors) ==
    [q \in DOMAIN territories |->
       territories[q] + (IF territories[q] = 0 THEN 1 ELSE 0) * colors[q]]

\* the territories get_final_score sums, given what get_territories predicts
FinalTerritories(p, predicted) ==
    IF p.rule = RULE_CH
    THEN FillAreas(ReflectSeki(predicted, BoardColors(p)), <<p.height, p.width>>,
                   NdIndex(<<p.height, p.width>>), {})
    ELSE ReflectSeki(predicted, BoardColors(p))

RECURSIVE SumOf(_, _)
SumOf(f, todo) == IF Len(todo) = 0 THEN 0 ELSE f[Head(todo)] + SumOf(f, Tail(todo))

\* Player.get_final_score, in tenths of a point
PlayerGetFinalScore(p, predicted) ==
    10 * SumOf(FinalTerritories(p, predicted), NdIndex(<<p.height, p.width>>)) - p.komi
      - (IF p.rule = RULE_JP THEN 10 * (p.moves[1] - p.moves[2]) ELSE 0)

(***************************************************************************)
(* Player.get_final_score on its own: a game under way under any rule, and *)
(* any owner map the network may predict.                                  *)
(***************************************************************************)
ScoreGames ==
    { Advance(WithPlayer(NewGame), <<0, 0>>, BLACK), KoGame }

ScoreInit ==
    /\ rule \in {RULE_CH, RULE_JP, RULE_COM}
    /\ superko = FALSE
    /\ ponder = FALSE
    /\ search = NoSearch
    /\ processor = NewProcessor
    /\ \E gs \in ScoreGames :
         /\ player = gs.player
         /\ moves = gs.moves
         /\ size = gs.size
         /\ komi = gs.komi
         /\ remain_times = gs.remain_times
    /\ Idle

\* the owner maps get_territories may return
OwnerMaps(p) == [Points(p.height, p.width) -> {WHITE, EMPTY, BLACK}]

ApplyFinalScore ==
    /\ last = NoLast
    /\ \E predicted \in OwnerMaps(player) :
         last' = [predicted |-> predicted,
                  territories |-> FinalTerritories(player, predicted),
                  score |-> PlayerGetFinalScore(player, predicted)]
    /\ UNCHANGED <<player, moves, size, komi, remain_times, rule, superko, ponder, search, processor, thread,
                   terminated, exec, rpc, line, ncmds, out>>

ScoreNext == ApplyFinalScore

ScoreSpec == ScoreInit /\ [][ScoreNext]_vars

\* get_final_score has returned
Scored == last # NoLast

\* the owner map once the stones on points predicted empty are taken over
Seki == [q \in DOMAIN last.predicted |->
           IF last.predicted[q] = EMPTY THEN BoardColors(player)[q] ELSE last.predicted[q]]

\* the colours of the points next to the empty region of q
BorderColors(q) ==
    { Seki[b] : b \in { c \in UNION { Neighbours(Seki, r) : r \in Ren(Seki, q) } :
                          Seki[c] # EMPTY } }

\* C26: a point predicted empty that holds a stone takes the colour of the
\* stone; under the Chinese rule every maximal connected region of points
\* still empty takes colour c exactly when the points that border it all
\* have colour c, and stays empty otherwise; the score is the sum of the
\* points minus komi, and under the Japanese rule minus the difference of
\* the black and white move counts as well.
C26_FinalScore ==
    Scored =>
      /\ \A q \in DOMAIN Seki : Seki[q] # EMPTY => last.territories[q] = Seki[q]
      /\ rule = RULE_CH =>
           \A q \in DOMAIN Seki : Seki[q] = EMPTY =>
             \A c \in {BLACK, WHITE} :
               last.territories[q] = c <=> BorderColors(q) = {c}
      /\ rule # RULE_CH => last.territories = Seki
      /\ last.score =
           10 * SumOf(last.territories, NdIndex(<<player.height, player.width>>)) - komi
             - (IF rule = RULE_JP THEN 10 * (player.moves[1] - player.moves[2]) ELSE 0)

\* under the Chinese rule one region was filled, one with both colours on its
\* border was left empty, and a stone stood on a point predicted empty
C26_Witness ==
    /\ Scored
    /\ rule = RULE_CH
    /\ \E q \in DOMAIN Seki : last.predicted[q] = EMPTY /\ Seki[q] # EMPTY
    /\ \E q \in DOMAIN Seki : Seki[q] = EMPTY /\ last.territories[q] = WHITE
    /\ \E q \in DOMAIN Seki :
         Seki[q] = EMPTY /\ BorderColors(q) = {BLACK, WHITE} /\ last.territories[q] = EMPTY

(***************************************************************************)
(* record.py: SGF records.  A text is a sequence of characters; a dict is  *)
(* a function from keys to values; a move is <<pos, color, message>> with  *)
(* the message <<FALSE, "">> for None.                                     *)
(***************************************************************************)
\* ord(c) for the characters of the texts read here, and chr(n) of a letter
Ord(c) ==
    IF Occurs(LowerLetters, c) THEN 96 + IndexOf(LowerLetters, c)
    ELSE IF Occurs(UpperLetters, c) THEN 64 + IndexOf(UpperLetters, c)
    ELSE IF Occurs(Digits, c) THEN 47 + IndexOf(Digits, c)
    ELSE IF c = " " THEN 32
    ELSE IF c = "(" THEN 40
    ELSE IF c = ")" THEN 41
    ELSE IF c = ";" THEN 59
    ELSE IF c = "[" THEN 91
    ELSE IF c = "\\" THEN 92
    ELSE 93
Chr(n) == LowerLetters[n - 96]

Upper(s) == [i \in 1 .. Len(s) |-> UpperChar(s[i])]

\* "values_list[-1][name.lower()] = value", "props[k] = v"
DictSet(d, k, v) == [x \in DOMAIN d \cup {k} |-> IF x = k THEN v ELSE d[x]]

ParseStart == [values_list |-> << >>, state |-> 1, name |-> << >>, value |-> << >>,
               escape |-> FALSE, raised |-> FALSE]

\* one turn of "while state > 0" of _parse_text
ParseChar(st, c) ==
    IF st.state = 1 /\ c = ")" THEN [st EXCEPT !.state = 0]
    ELSE IF st.state = 1 /\ c = ";"
    THEN [st EXCEPT !.values_list = Append(@, << >>), !.name = << >>, !.value = << >>]
    ELSE IF st.state = 1 /\ c = "[" THEN [st EXCEPT !.state = 2]
    ELSE IF st.state = 1 /\ c # " " THEN [st EXCEPT !.name = Append(@, c)]
    ELSE IF st.state = 2 /\ ~ st.escape /\ c = "]"
    THEN IF Len(st.values_list) = 0 THEN [st EXCEPT !.raised = TRUE, !.state = 0]
         ELSE [st EXCEPT !.values_list[Len(st.values_list)] =
                             DictSet(@, Lower(st.name), st.value),
                         !.name = << >>, !.value = << >>, !.state = 1]
    ELSE IF st.state = 2 /\ ~ st.escape /\ c = "\\" THEN [st EXCEPT !.escape = TRUE]
    ELSE IF st.state = 2 THEN [st EXCEPT !.value = Append(@, c), !.escape = FALSE]
    ELSE st

\* "while state > 0": reading past the end of the text raises IndexError
RECURSIVE ParseFrom(_, _, _)
ParseFrom(text, index, st) ==
    IF st.state = 0 THEN st
    ELSE IF index > Len(text) THEN [st EXCEPT !.raised = TRUE]
    ELSE ParseFrom(text, index + 1, ParseChar(st, text[index]))

\* _parse_text(text): the dict of every node, or raised
parse_text(text) ==
    IF ~ Occurs(text, "(") THEN [ParseStart EXCEPT !.state = 0]
    ELSE ParseFrom(text, IndexOf(text, "(") + 1, ParseStart)

RECURSIVE Replace(_, _, _)
Replace(value, c, by) ==
    IF Len(value) = 0 THEN << >>
    ELSE (IF Head(value) = c THEN by ELSE <<Head(value)>>) \o Replace(Tail(value), c, by)

\* _escape_value(value)
escape_value(value) == Replace(Replace(value, "\\", <<"\\", "\\">>), "]", <<"\\", "]">>)

DEFAULT_SIZE == 19

NoMessage == <<FALSE, << >> >>

\* Record.size; the value of sz is a string of digits in every text read here
RecordSize(properties) == ParseInt(properties[<<"s", "z">>])

\* one turn of "for v in values[1:]" of Record._parse
ParsedMove(v, n) ==
    Only({ << Only({ IF is_valid_position(pos, n, n) THEN pos ELSE PASS
                     : pos \in { IF Len(coord) = 2
                                 THEN <<Ord(coord[1]) - 97, Ord(coord[2]) - 97>>
                                 ELSE PASS } }),
              IF <<"b">> \in DOMAIN v THEN BLACK ELSE WHITE,
              IF <<"c">> \in DOMAIN v THEN <<TRUE, v[<<"c">>]>> ELSE NoMessage >>
           : coord \in { IF <<"b">> \in DOMAIN v THEN v[<<"b">>] ELSE v[<<"w">>] } })

RECURSIVE ParsedMoves(_, _)
ParsedMoves(values, n) ==
    IF Len(values) = 0 THEN << >>
    ELSE (IF <<"b">> \in DOMAIN Head(values) \/ <<"w">> \in DOMAIN Head(values)
          THEN <<ParsedMove(Head(values), n)>> ELSE << >>)
         \o ParsedMoves(Tail(values), n)

\* "if 'sz' not in self.properties: self.properties['sz'] = str(DEFAULT_SIZE)"
WithSize(properties) ==
    IF <<"s", "z">> \in DOMAIN properties THEN properties
    ELSE DictSet(properties, <<"s", "z">>, FormatInt(DEFAULT_SIZE))

RecordOf(properties, values) ==
    [properties |-> properties,
     moves |-> ParsedMoves(Tail(values), RecordSize(properties)),
     raised |-> FALSE]

\* Record._parse(text): values[0] of an empty list raises IndexError
RecordParse(text) ==
    Only({ IF parsed.raised \/ Len(parsed.values_list) = 0
           THEN [properties |-> << >>, moves |-> << >>, raised |-> TRUE]
           ELSE RecordOf(WithSize(parsed.values_list[1]), parsed.values_list)
           : parsed \in { parse_text(text) } })

\* the order of str
StrLess(a, b) ==
    \E i \in 1 .. Len(b) :
      /\ \A j \in 1 .. i - 1 : j <= Len(a) /\ a[j] = b[j]
      /\ i > Len(a) \/ (i <= Len(a) /\ Ord(a[i]) < Ord(b[i]))

\* sorted(props.items())
RECURSIVE SortedKeys(_)
SortedKeys(keys) ==
    IF keys = {} THEN << >>
    ELSE Only({ <<k>> \o SortedKeys(keys \ {k})
                : k \in { CHOOSE x \in keys : \A y \in keys \ {x} : StrLess(x, y) } })

\* ''.join(f'{k.upper()}[{v}]' for k, v in sorted(props.items()))
RECURSIVE PropsText(_, _)
PropsText(props, keys) ==
    IF Len(keys) = 0 THEN << >>
    ELSE Upper(Head(keys)) \o <<"[">> \o props[Head(keys)] \o <<"]">>
         \o PropsText(props, Tail(keys))

\* the properties dumps writes: gm, ff and sz are set
DumpedProps(r) ==
    DictSet(DictSet(DictSet(r.properties, <<"g", "m">>, <<"1">>), <<"f", "f">>, <<"4">>),
            <<"s", "z">>, FormatInt(RecordSize(r.properties)))

\* f';{c}[{p}]' and f'C[{_escape_value(message)}]'
MoveText(m, n) ==
    <<";", IF m[2] = BLACK THEN "B" ELSE "W", "[">>
    \o (IF is_valid_position(m[1], n, n) THEN <<Chr(97 + m[1][1]), Chr(97 + m[1][2])>>
        ELSE << >>)
    \o <<"]">>
    \o (IF m[3][1] THEN <<"C", "[">> \o escape_value(m[3][2]) \o <<"]">> ELSE << >>)

RECURSIVE MovesText(_, _)
MovesText(ms, n) ==
    IF Len(ms) = 0 THEN << >> ELSE MoveText(Head(ms), n) \o MovesText(Tail(ms), n)

\* Record.dumps()
RecordDumps(r) ==
    <<"(", ";">>
    \o Only({ PropsText(props, SortedKeys(DOMAIN props)) : props \in { DumpedProps(r) } })
    \o MovesText(r.moves, RecordSize(r.properties)) \o <<")">>

(***************************************************************************)
(* Records on their own: an SGF text is read, written and read again.      *)
(***************************************************************************)
\* the values of a property as they stand in a text: plain, with blanks,
\* with an escaped bracket, with an escaped backslash
SgfValues ==
    { <<"a">>, <<"a", " ", "b">>, <<"a", "\\", "]", "b">>, <<"\\", "\\", "a">> }

SgfRoots ==
    { header \o extra :
        header \in { << >>, <<"G", "M", "[", "1", "]", "F", "F", "[", "4", "]", "S", "Z", "[", "3", "]">>, <<"f", "f", "[", "4", "]", " ", "g", "m", "[", "1", "]", " ", "s", "z", "[", "1", "9", "]">> },
        extra \in { << >> }
                  \cup { <<"P", "B", "[">> \o v \o <<"]">> : v \in SgfValues }
                  \cup { <<"c", " ", "[">> \o v \o <<"]">> : v \in SgfValues } }

SgfNodes ==
    { <<";", "B", "[", "a", "a", "]">>, <<";", "W", "[", "]">>, <<";", "b", "[", "t", "t", "]">>, <<";", "C", "[", "a", "]">> }
    \cup { <<";", "W", "[", "b", "c", "]", "C", "[">> \o v \o <<"]">> : v \in SgfValues }

SgfMoves ==
    { << >> } \cup SgfNodes \cup { a \o b : a \in SgfNodes, b \in SgfNodes }

SgfTexts == { <<"(", ";">> \o root \o ms \o <<")">> : root \in SgfRoots, ms \in SgfMoves }

ApplyRoundTrip ==
    /\ last = NoLast
    /\ \E text \in SgfTexts :
         last' = [text |-> text,
                  record |-> RecordParse(text),
                  dumped |-> RecordDumps(RecordParse(text)),
                  again |-> RecordParse(RecordDumps(RecordParse(text)))]
    /\ UNCHANGED <<player, moves, size, komi, remain_times, rule, superko, ponder, search, processor, thread,
                   terminated, exec, rpc, line, ncmds, out>>

RecordNext == ApplyRoundTrip

RecordSpec == Init /\ [][RecordNext]_vars

\* a text was read, written and read again
RoundTripped == last # NoLast /\ ~ last.record.raised

\* C27: reading what dumps writes for a record that was read from a text
\* gives a record with the same properties and the same moves, also when
\* values or comments hold a closing bracket or a backslash.
C27_RoundTrip ==
    RoundTripped =>
      /\ ~ last.again.raised
      /\ last.again.properties = last.record.properties
      /\ last.again.moves = last.record.moves

(***************************************************************************)
(* Candidate.__init__ on its own: every value (in hundredths), colour and  *)
(* number of visits up to MaxVisits.                                       *)
(***************************************************************************)
MaxVisits == 8

\* the values of the search, from -1 to +1
CandidateValues == { 10 * k : k \in -10 .. 10 }

ApplyCandidate ==
    /\ last = NoLast
    /\ \E color \in {BLACK, WHITE}, visits \in 0 .. MaxVisits, value \in CandidateValues :
         last' = [candidate |-> Candidate(<<0, 0>>, color, visits, value)]
    /\ UNCHANGED <<player, moves, size, komi, remain_times, rule, superko, ponder, search, processor, thread,
                   terminated, exec, rpc, line, ncmds, out>>

CandidateNext == ApplyCandidate

CandidateSpec == Init /\ [][CandidateNext]_vars

\* a Candidate was constructed
Made == last # NoLast

\* win_chance - win_chance_lcb, in thousandths
Lowered == 10 * last.candidate.win_chance - last.candidate.win_chance_lcb

\* C28: for a value in [-1, 1], a colour and visits >= 0, win_chance is
\* value * colour * 0.5 + 0.5 and lies in [0, 1]; win_chance_lcb is
\* win_chance - 1.96 * 0.25 / sqrt(visits + 1) and never above win_chance.
C28_WinChance ==
    Made =>
      /\ 2 * (last.candidate.win_chance - 50) = last.candidate.value * last.candidate.color
      /\ 0 <= last.candidate.win_chance /\ last.candidate.win_chance <= 100
      /\ last.candidate.win_chance_lcb <= 10 * last.candidate.win_chance
      /\ Lowered * Lowered * (last.candidate.visits + 1) <= 490 * 490
      /\ (Lowered + 1) * (Lowered + 1) * (last.candidate.visits + 1) > 490 * 490

\* a sure loss for the colour, never visited: win_chance 0, the bound below it
C28_Witness ==
    /\ Made
    /\ last.candidate.value * last.candidate.color = -100
    /\ last.candidate.visits = 0
    /\ last.candidate.win_chance = 0
    /\ last.candidate.win_chance_lcb < 0

(***************************************************************************)
(* The search of the native player (deepgo.native), as the specification   *)
(* describes it: a tree of nodes keyed by position, a pool of workers that *)
(* select a path, have the leaf evaluated, expand it and back-propagate,   *)
(* and the session Player.evaluate starts and waits for.                   *)
(***************************************************************************)
\* the number of workers, and the visits evaluate asks for
Threads == 2
VisitTarget == 4
\* the cap of a pondering search
VisitCap == VisitTarget + 1

Workers == 1 .. Threads

\* The positions searched: from the root two moves, which played in either
\* order lead to the same position 4; position 5 ends the game.
Root == 1
Children ==
    [n \in 1 .. 5 |-> IF n = 1 THEN {2, 3} ELSE IF n \in {2, 3} THEN {4}
                      ELSE IF n = 4 THEN {5} ELSE {}]
Nodes == DOMAIN Children
Edges == { <<n, c>> : n \in Nodes, c \in Nodes } \cap { e \in Nodes \X Nodes : e[2] \in Children[e[1]] }
NoEdge == << >>

IdleWorker == [pc |-> "select", path |-> << >>, at |-> 0]

\* the session after start_evaluation: a tree with no node expanded
NewSearch ==
    [status |-> [n \in Nodes |-> IF Children[n] = {} THEN "Terminal" ELSE "Unexpanded"],
     visits |-> [n \in Nodes |-> 0],
     virtual_loss |-> [n \in Nodes |-> 0],
     edge_visits |-> [e \in Edges |-> 0],
     edge_virtual_loss |-> [e \in Edges |-> 0],
     expansions |-> [n \in Nodes |-> 0],
     workers |-> [w \in Workers |-> IdleWorker],
     cancel |-> FALSE,
     pc |-> "wait"]

\* where worker w may step next: onto the root, or over an edge of the node
\* it stands on; a node another worker is expanding is not stepped onto
NextSteps(s, w) ==
    IF Len(s.workers[w].path) = 0
    THEN (IF s.status[Root] # "Pending" THEN { <<Root, NoEdge>> } ELSE {})
    ELSE { <<c, <<s.workers[w].path[Len(s.workers[w].path)], c>> >>
           : c \in { d \in Children[s.workers[w].path[Len(s.workers[w].path)]] :
                       s.status[d] # "Pending" } }

\* the same step when the leaf is not marked: it stays Unexpanded while its
\* inference is requested
ArriveUnmarked(s, w, n, e) ==
    [s EXCEPT !.virtual_loss[n] = @ + 1,
              !.edge_virtual_loss = IF e = NoEdge THEN @ ELSE [@ EXCEPT ![e] = @ + 1],
              !.workers[w] = [pc |-> IF s.status[n] = "Unexpanded" THEN "infer"
                                     ELSE IF s.status[n] = "Terminal" THEN "backprop"
                                     ELSE "select",
                              path |-> Append(s.workers[w].path, n),
                              at |-> Len(s.workers[w].path) + 1]]

\* worker w steps onto node n over edge e: virtual loss is applied, and an
\* unexpanded node becomes the leaf of the path
Arrive(s, w, n, e) ==
    [s EXCEPT !.virtual_loss[n] = @ + 1,
              !.edge_virtual_loss = IF e = NoEdge THEN @ ELSE [@ EXCEPT ![e] = @ + 1],
              !.status[n] = IF @ = "Unexpanded" THEN "Pending" ELSE @,
              !.workers[w] = [pc |-> IF s.status[n] = "Unexpanded" THEN "infer"
                                     ELSE IF s.status[n] = "Terminal" THEN "backprop"
                                     ELSE "select",
                              path |-> Append(s.workers[w].path, n),
                              at |-> Len(s.workers[w].path) + 1]]

\* the edge worker w took from the at-th node of its path
EdgeAt(wk, at) == IF at < Len(wk.path) THEN <<wk.path[at], wk.path[at + 1]>> ELSE NoEdge

\* one step of back-propagation: node n and the edge e taken from it are
\* visited once more and their virtual loss is taken back
BackedUp(s, w, n, e) ==
    [s EXCEPT !.visits[n] = @ + 1,
              !.virtual_loss[n] = @ - 1,
              !.edge_visits = IF e = NoEdge THEN @ ELSE [@ EXCEPT ![e] = @ + 1],
              !.edge_virtual_loss = IF e = NoEdge THEN @ ELSE [@ EXCEPT ![e] = @ - 1],
              !.workers[w].at = @ - 1,
              !.workers[w].pc = IF s.workers[w].at = 1 THEN "check" ELSE "backprop"]

OnPath(wk, n) == \E i \in 1 .. wk.at : wk.path[i] = n
OnPathEdge(wk, e) == \E i \in 1 .. wk.at : EdgeAt(wk, i) = e

\* an iteration is given up: the virtual loss held is released, the leaf is
\* unexpanded again
GivenUp(s, w) ==
    [s EXCEPT !.virtual_loss = [n \in Nodes |-> IF OnPath(s.workers[w], n) THEN @[n] - 1 ELSE @[n]],
              !.edge_virtual_loss =
                  [e \in Edges |-> IF OnPathEdge(s.workers[w], e) THEN @[e] - 1 ELSE @[e]],
              !.status[s.workers[w].path[Len(s.workers[w].path)]] = "Unexpanded",
              !.workers[w] = [pc |-> "check", path |-> << >>, at |-> 0]]

\* a wait that does not look at the workers
QuietAny(s) == \A w \in Workers : s.workers[w].pc \in {"select", "infer", "expand", "backprop", "check", "done"}

\* every worker has left its loop
Quiet(s) == \A w \in Workers : s.workers[w].pc = "done"

SearchIdle ==
    UNCHANGED <<player, moves, size, komi, remain_times, rule, superko, ponder, processor,
                thread, terminated, exec, rpc, line, ncmds, out, last>>

\* Player.evaluate: "self.native.start_evaluation(...)"
StartEvaluation ==
    /\ search = NoSearch
    /\ processor = NewProcessor
    /\ search' = NewSearch
    /\ SearchIdle

\* a worker selects: one step down the tree
Descend(w) ==
    /\ search # NoSearch
    /\ search.workers[w].pc = "select"
    /\ \E step \in NextSteps(search, w) : search' = Arrive(search, w, step[1], step[2])
    /\ SearchIdle

\* the Processor answers the request for the leaf
Infer(w) ==
    /\ search # NoSearch
    /\ search.workers[w].pc = "infer"
    /\ search' = [search EXCEPT !.workers[w].pc = "expand"]
    /\ SearchIdle

\* the Processor fails: the worker gives its iteration up
InferenceFailed(w) ==
    /\ search # NoSearch
    /\ search.workers[w].pc = "infer"
    /\ search' = GivenUp(search, w)
    /\ SearchIdle

\* the leaf is expanded: its edges are built
Expand(w) ==
    /\ search # NoSearch
    /\ search.workers[w].pc = "expand"
    /\ search' = [search EXCEPT
                    !.status[search.workers[w].path[Len(search.workers[w].path)]] = "Expanded",
                    !.expansions[search.workers[w].path[Len(search.workers[w].path)]] = @ + 1,
                    !.workers[w].pc = "backprop"]
    /\ SearchIdle

Backpropagate(w) ==
    /\ search # NoSearch
    /\ search.workers[w].pc = "backprop"
    /\ search' = BackedUp(search, w, search.workers[w].path[search.workers[w].at],
                          EdgeAt(search.workers[w], search.workers[w].at))
    /\ SearchIdle

\* the worker checks the cancellation flag and the cap after back-propagation
CheckTermination(w) ==
    /\ search # NoSearch
    /\ search.workers[w].pc = "check"
    /\ search' = [search EXCEPT
                    !.workers[w] = [pc |-> IF search.cancel \/ search.visits[Root] >= VisitCap
                                           THEN "done" ELSE "select",
                                    path |-> << >>, at |-> 0]]
    /\ SearchIdle

\* Player.evaluate: "self.native.wait_evaluation(visits, playouts, timelimit,
\* not ponder)": the target is reached or the time is up; with stop the
\* session is cancelled and waited for, without it evaluate returns
WaitEvaluation ==
    /\ search # NoSearch
    /\ search.pc = "wait"
    /\ \E timeout \in BOOLEAN : timeout \/ search.visits[Root] >= VisitTarget
    /\ search' = IF ponder THEN [search EXCEPT !.pc = "returned"]
                 ELSE [search EXCEPT !.cancel = TRUE, !.pc = "quiesce"]
    /\ SearchIdle

\* the workers have stopped: wait_evaluation returns
Quiesced ==
    /\ search # NoSearch
    /\ search.pc \in {"quiesce", "stopping"}
    /\ Quiet(search)
    /\ search' = [search EXCEPT !.pc = IF @ = "quiesce" THEN "returned" ELSE "stopped"]
    /\ SearchIdle

\* Player.stop_evaluation: "self.native.wait_evaluation(0, 0, 0.0, True)"
StopEvaluation ==
    /\ search # NoSearch
    /\ search.pc = "returned"
    /\ search' = [search EXCEPT !.cancel = TRUE, !.pc = "stopping"]
    /\ SearchIdle

SearchInit ==
    /\ rule = RULE_CH
    /\ superko = FALSE
    /\ ponder \in BOOLEAN
    /\ search = NoSearch
    /\ processor = NewProcessor
    /\ \E gs \in { WithPlayer(NewGame) } :
         /\ player = gs.player
         /\ moves = gs.moves
         /\ size = gs.size
         /\ komi = gs.komi
         /\ remain_times = gs.remain_times
    /\ Idle

SearchNext ==
    \/ StartEvaluation
    \/ \E w \in Workers : Descend(w)
    \/ \E w \in Workers : Infer(w)
    \/ \E w \in Workers : InferenceFailed(w)
    \/ \E w \in Workers : Expand(w)
    \/ \E w \in Workers : Backpropagate(w)
    \/ \E w \in Workers : CheckTermination(w)
    \/ WaitEvaluation
    \/ Quiesced
    \/ StopEvaluation

SearchSpec == SearchInit /\ [][SearchNext]_vars

RECURSIVE SumEdges(_, _)
SumEdges(f, es) ==
    IF es = {} THEN 0
    ELSE Only({ f[e] + SumEdges(f, es \ {e}) : e \in { CHOOSE x \in es : TRUE } })

\* the visits of the edges of node n
EdgeVisits(n) == SumEdges(search.edge_visits, { e \in Edges : e[1] = n })

TreeVisits(n) == search.status[n] = "Expanded" => EdgeVisits(n) = search.visits[n] - 1

\* no worker holds a path
AtRest == \A w \in Workers : search.workers[w].at = 0

\* evaluate has returned
EvaluateReturned == search # NoSearch /\ search.pc \in {"returned", "stopping", "stopped"}

\* C29: for every expanded node the visits of its edges add up to the
\* visits of the node less one whenever no selection is in flight, and for
\* the root after every call of evaluate, also when the search was
\* cancelled and when a child is shared by two parents.
C29_TreeVisits ==
    search # NoSearch =>
      /\ AtRest => \A n \in Nodes : TreeVisits(n)
      /\ EvaluateReturned => TreeVisits(Root)

\* the paths in flight that cross node n, and edge e
Crossing(n) == Cardinality({ w \in Workers : OnPath(search.workers[w], n) })
CrossingEdge(e) == Cardinality({ w \in Workers : OnPathEdge(search.workers[w], e) })

NoVirtualLoss ==
    /\ \A n \in Nodes : search.virtual_loss[n] = 0
    /\ \A e \in Edges : search.edge_virtual_loss[e] = 0

\* C30: the virtual loss of every node and edge is never negative and is
\* the number of paths in flight that cross it; once evaluate has returned
\* or the session was cancelled, every virtual loss is 0.
C30_VirtualLoss ==
    search # NoSearch =>
      /\ \A n \in Nodes : search.virtual_loss[n] >= 0 /\ search.virtual_loss[n] = Crossing(n)
      /\ \A e \in Edges :
           search.edge_virtual_loss[e] >= 0 /\ search.edge_virtual_loss[e] = CrossingEdge(e)
      /\ search.pc \in {"returned", "stopped"} => NoVirtualLoss

\* worker w has taken node n as its leaf and has not expanded it yet
Expanding(w, n) ==
    /\ search.workers[w].pc \in {"infer", "expand"}
    /\ search.workers[w].path[Len(search.workers[w].path)] = n

\* worker w is selecting at a parent of n (or before the root n) and may
\* not step onto n
TurnedAway(w, n) ==
    /\ search.workers[w].pc = "select"
    /\ \/ Len(search.workers[w].path) = 0 /\ n = Root
       \/ Len(search.workers[w].path) > 0
          /\ n \in Children[search.workers[w].path[Len(search.workers[w].path)]]
    /\ \A step \in NextSteps(search, w) : step[1] # n

\* C31: the edges of a leaf are built at most once, and exactly when it is
\* Expanded; a leaf is Pending exactly while one worker, and never more than
\* one, has taken it and has its inference requested, and every other
\* worker that reaches it then is turned away.
C31_ExpandedOnce ==
    search # NoSearch =>
      \A n \in Nodes :
        /\ search.expansions[n] <= 1
        /\ search.expansions[n] = 1 <=> search.status[n] = "Expanded"
        /\ Cardinality({ w \in Workers : Expanding(w, n) })
             = (IF search.status[n] = "Pending" THEN 1 ELSE 0)
        /\ search.status[n] = "Pending" =>
             \A w \in Workers :
               search.workers[w].pc = "select" =>
                 \A step \in NextSteps(search, w) : step[1] # n

\* two workers have reached the same leaf: one is expanding it, the other
\* is turned away
C31_Witness ==
    /\ search # NoSearch
    /\ \E n \in Nodes \ {Root} : \E w1, w2 \in Workers :
         /\ w1 # w2
         /\ search.status[n] = "Pending"
         /\ Expanding(w1, n)
         /\ TurnedAway(w2, n)

(***************************************************************************)
(* Processor.execute under concurrent callers: the steps of the callers    *)
(* and of the dispatchers.                                                 *)
(***************************************************************************)
ProcessorIdle ==
    UNCHANGED <<player, moves, size, komi, remain_times, rule, superko, ponder, search,
                thread, terminated, exec, rpc, line, ncmds, out, last>>

\* Processor.execute: "return self.native.execute(inputs)": the request is
\* queued with the slot of its caller
Execute(c) ==
    /\ processor.cpc[c] = "idle"
    /\ processor.calls[c] < CallsEach
    /\ processor' = [processor EXCEPT
                       !.queue = Append(@, [caller |-> c,
                                            input |-> Input(c, processor.calls[c] + 1)]),
                       !.cpc[c] = "waiting"]
    /\ ProcessorIdle

\* a dispatcher wakes and drains the queue
Drain(d) ==
    /\ processor.dpc[d] = "idle"
    /\ CanDrain(processor.queue)
    /\ processor' = [processor EXCEPT
                       !.batch[d] = Drained(processor.queue),
                       !.queue = SubSeq(@, Len(Drained(processor.queue)) + 1, Len(@)),
                       !.dpc[d] = "infer"]
    /\ ProcessorIdle

\* the batch is handed to the model
RunModel(d) ==
    /\ processor.dpc[d] = "infer"
    /\ processor' = [processor EXCEPT
                       !.outputs[d] = Inferred(processor.batch[d]),
                       !.served = [x \in Inputs |->
                                     IF \E i \in 1 .. Len(processor.batch[d]) :
                                          processor.batch[d][i].input = x
                                     THEN @[x] + 1 ELSE @[x]],
                       !.invocations = @ + 1,
                       !.largest = IF Len(processor.batch[d]) > @
                                   THEN Len(processor.batch[d]) ELSE @,
                       !.dpc[d] = "scatter"]
    /\ ProcessorIdle

\* the results are delivered to the completion slots
Scatter(d) ==
    /\ processor.dpc[d] = "scatter"
    /\ processor' = [processor EXCEPT
                       !.slot = Scattered(@, processor.batch[d], processor.outputs[d]),
                       !.batch[d] = << >>,
                       !.outputs[d] = << >>,
                       !.dpc[d] = "idle"]
    /\ ProcessorIdle

\* the caller finds its slot filled: its execute returns
Return(c) ==
    /\ processor.cpc[c] = "waiting"
    /\ processor.slot[c] # << >>
    /\ processor' = [processor EXCEPT
                       !.results[c] = Append(@, << Input(c, processor.calls[c] + 1),
                                                   processor.slot[c][1] >>),
                       !.calls[c] = @ + 1,
                       !.slot[c] = << >>,
                       !.cpc[c] = "idle"]
    /\ ProcessorIdle

ProcessorNext ==
    \/ \E c \in Callers : Execute(c)
    \/ \E d \in Dispatchers : Drain(d)
    \/ \E d \in Dispatchers : RunModel(d)
    \/ \E d \in Dispatchers : Scatter(d)
    \/ \E c \in Callers : Return(c)

ProcessorSpec == Init /\ [][ProcessorNext]_vars

\* C32: every execute that has returned gave its caller the output of the
\* model on the caller's own input, a filled slot holds the output for the
\* request its caller is waiting on, and every input is handed to the model
\* at most once, exactly once when its call has returned.
C32_Execute ==
    /\ \A c \in Callers :
         /\ Len(processor.results[c]) = processor.calls[c]
         /\ \A k \in 1 .. Len(processor.results[c]) :
              processor.results[c][k] = << Input(c, k), ModelOutput(Input(c, k)) >>
         /\ processor.slot[c] # << >> =>
              /\ processor.cpc[c] = "waiting"
              /\ processor.slot[c] = << ModelOutput(Input(c, processor.calls[c] + 1)) >>
         /\ \A k \in 1 .. CallsEach :
              /\ processor.served[Input(c, k)] <= 1
              /\ k <= processor.calls[c] => processor.served[Input(c, k)] = 1

\* every caller has made all its calls, some of them served in one batch
\* with another caller's
C32_Witness ==
    /\ \A c \in Callers : processor.calls[c] = CallsEach
    /\ processor.largest = batch_size
    /\ processor.invocations < ExecuteThreads * CallsEach

\* the smallest number of batches that hold all the calls
FullBatches == (ExecuteThreads * CallsEach + batch_size - 1) \div batch_size

\* no batch is larger than batch_size, and an idle dispatcher takes what is
\* queued, be it one request
NoOversizeNoWait ==
    /\ processor.largest <= batch_size
    /\ \A d \in Dispatchers :
         /\ Len(processor.batch[d]) <= batch_size
         /\ processor.dpc[d] # "idle" => Len(processor.batch[d]) >= 1
         /\ processor.dpc[d] = "idle" /\ Len(processor.queue) >= 1 => ENABLED Drain(d)

FairSearchSpec ==
    /\ SearchSpec
    /\ \A w \in Workers :
         /\ WF_vars(Descend(w))
         /\ WF_vars(Infer(w) \/ InferenceFailed(w))
         /\ WF_vars(Expand(w))
         /\ WF_vars(Backpropagate(w))
         /\ WF_vars(CheckTermination(w))
    /\ WF_vars(Quiesced)

\* the cancellation flag of the session is set
Cancelled == search # NoSearch /\ search.cancel

\* every worker has left its loop and holds nothing
AllLeft ==
    /\ search # NoSearch
    /\ \A w \in Workers : search.workers[w].pc = "done" /\ search.workers[w].at = 0
    /\ NoVirtualLoss

\* a wait with the stop flag has returned: that of evaluate without ponder,
\* or that of stop_evaluation
StopReturned ==
    /\ search # NoSearch
    /\ \/ search.pc = "stopped"
       \/ search.pc = "returned" /\ ~ ponder

Count(test(_)) == Cardinality({ i \in 1 .. Len(out) : test(out[i]) })

\* a response that opens an answer, and a write that closes one
IsHeader(w) == w.kind = "quit" \/ (w.kind = "response" /\ w.mark \in {"=", "?"})
IsEnd(w) == w.kind \in {"quit", "end"}

\* the reader is between two lines, or has ended, and no executor runs
AllServed == rpc \in {"read", "done"} /\ Running = {}

\* C35: every command line the reader has dispatched is answered: once
\* its executor has ended it has written a response, and the output holds
\* one response that begins with = or ? and one closing blank line for
\* every line read, also for a handler that failed on its argument.
C35_Answered ==
    /\ \A s \in Slots : exec[s].pc = "done" => exec[s].count >= 1
    /\ AllServed => Count(IsHeader) = ncmds /\ Count(IsEnd) = ncmds

\* C36: when the loop of the reader has ended (quit, end of input) no
\* executor is running any more, the one that was running having been
\* cancelled and joined, and nothing is written after the loop has ended.
C36_LoopEnd ==
    /\ [](rpc = "done" => Running = {})
    /\ [][rpc = "done" => out' = out]_vars

\* the board of the Player holds a stone
StonesOnBoard ==
    /\ player # NoPlayer
    /\ \E v \in DOMAIN PlayerBoard(player).cells : PlayerBoard(player).cells[v] # EMPTY

\* C37: histories holds the fingerprint of every position that has
\* occurred: whenever stones are on the board, by a move, by the handicap
\* placement or by the moves replayed in undo, the fingerprint of the
\* board is in histories.
C37_Histories ==
    StonesOnBoard => BoardPatterns(PlayerBoard(player)) \in player.histories

(***************************************************************************)
(* gtp_string_to_position on its own: on a board of any size a string of a *)
(* letter and digits, or a keyword, is parsed, and what it gives is        *)
(* formatted again.                                                        *)
(***************************************************************************)
\* the strings a client may send for a vertex
VertexTexts ==
    { <<l>> \o n : l \in {"a", "h", "i", "j", "t", "u", "A", "H", "I", "J", "T", "U"},
                   n \in { <<"0">>, <<"1">>, <<"9">>, <<"1", "0">>, <<"1", "9">>,
                           <<"2", "0">>, <<"0", "1">> } }
    \cup { Pass, <<"P", "A", "S", "S">>, <<"r", "e", "s", "i", "g", "n">>, <<"1">>,
           <<"A">>, <<"a", "a", "1">> }

\* gtp_position_to_string(gtp_string_to_position(s, size, size), size, size)
ApplyParse ==
    /\ last = NoLast
    /\ \E s \in VertexTexts :
         \E parsed \in { gtp_string_to_position(s, size, size) } :
           last' = [s |-> s, parsed |-> parsed,
                    text |-> IF parsed.ok THEN gtp_position_to_string(parsed.pos, size, size)
                             ELSE << >>]
    /\ UNCHANGED <<player, moves, size, komi, remain_times, rule, superko, ponder, search,
                   processor, thread, terminated, exec, rpc, line, ncmds, out>>

ParseNext == ApplyParse

ParseSpec == SizedInit /\ [][ParseNext]_vars

\* the string parsed names a point of the board
ParsedPoint ==
    /\ last # NoLast
    /\ last.parsed.ok
    /\ last.parsed.pos \notin {PASS, Resign}

\* C38: a string that is accepted as a point is, up to case, the canonical
\* vertex of that point; its column is not I; and no other accepted string
\* names the same point unless it differs by case only.
C38_Canonical ==
    ParsedPoint =>
      /\ last.text = Upper(last.s)
      /\ last.s[1] \notin {"i", "I"}
      /\ \A t \in VertexTexts :
           (/\ gtp_string_to_position(t, size, size).ok
            /\ gtp_string_to_position(t, size, size).pos = last.parsed.pos)
             => Upper(t) = Upper(last.s)

(***************************************************************************)
(* known_command and list_commands on their own: the client asks about a  *)
(* name, and the answer is set against what the reader and the dispatcher  *)
(* do with that name.                                                      *)
(***************************************************************************)
\* the names asked about: every name listed, the method names, and others
AskedNames ==
    ListedCommands
    \cup { Spelled[n] : n \in Registry }
    \cup { <<"f", "o", "o">>, <<"N", "A", "M", "E">>, <<"Q", "u", "i", "t">>,
           <<"L", "Z", "-", "a", "n", "a", "l", "y", "z", "e">> }

ApplyKnownCommand ==
    /\ last = NoLast
    /\ \E asked \in AskedNames :
         \E r \in perform_command(Command("", "known_command", <<asked>>), GameState) :
           \E l \in perform_command(Command("", "list_commands", << >>), GameState) :
             last' = [asked |-> asked, reply |-> r, listed |-> l.message[2]]
    /\ UNCHANGED <<player, moves, size, komi, remain_times, rule, superko, ponder, search,
                   processor, thread, terminated, exec, rpc, line, ncmds, out>>

KnownNext == ApplyKnownCommand

KnownSpec == SizedInit /\ [][KnownNext]_vars

\* GTPEngine.run: "command.lower().startswith('quit')"
IsQuit(chars) == Len(chars) >= 4 /\ Lower(SubSeq(chars, 1, 4)) = <<"q", "u", "i", "t">>

\* the engine executes the command of that name: the reader answers quit,
\* _perform_command finds the method of tokens[0].lower().replace('-', '_')
Executes(chars) ==
    \/ IsQuit(chars)
    \/ HasMethod([i \in 1 .. Len(chars) |->
                    IF chars[i] = "-" THEN "_" ELSE LowerChar(chars[i])])

\* C39: known_command answers true exactly for the names the engine
\* executes, every name of list_commands among them, and false exactly for
\* the names answered unknown command.
C39_KnownCommand ==
    last # NoLast =>
      /\ last.reply.stat
      /\ last.reply.message = Msg("true") <=> Executes(last.asked)
      /\ last.reply.message = Msg("false") <=> ~ Executes(last.asked)
      /\ last.asked \in last.listed => last.reply.message = Msg("true")

(***************************************************************************)
(* The queries of the Player that look at a position without playing it.   *)
(* Boards are objects: boards[1] is the board of the native player,        *)
(* boards[2] a Board the query has created, ref the one the query holds.   *)
(***************************************************************************)
\* a get_board that hands out the board of the native player itself
PlayerGetBoardShared(p) == [boards |-> <<PlayerBoard(p), PlayerBoard(p)>>, ref |-> 1]

\* Player.get_board: "board = Board(self.width, self.height)",
\* "board.load_state(self.native.get_board_state())"
PlayerGetBoard(p) == [boards |-> <<PlayerBoard(p), PlayerBoard(p)>>, ref |-> 2]

\* Board.play on the board held: "self.native.play(pos, color)"
BoardPlayOn(h, pos, color) ==
    [h EXCEPT !.boards[h.ref] = BoardPlay(h.boards[h.ref], pos, color).board]

\* the queries, and whether they take a move
Queries ==
    { "is_superko_move", "get_cleanup_position", "get_territories", "get_territories_at",
      "get_values", "get_final_score" }
TakesMove(query) == query \in {"is_superko_move", "get_territories_at"}

\* the boards after the query: is_superko_move plays on its board when the
\* position is valid, get_territories when a position is given; the others
\* only read the board they got
QueryBoards(query, p, pos, color) ==
    CASE query = "is_superko_move" ->
           IF is_valid_position(pos, p.width, p.height)
           THEN BoardPlayOn(PlayerGetBoard(p), pos, color)
           ELSE [boards |-> <<PlayerBoard(p), PlayerBoard(p)>>, ref |-> 1]
      [] query = "get_territories_at" -> BoardPlayOn(PlayerGetBoard(p), pos, color)
      [] OTHER -> PlayerGetBoard(p)

\* the Player once the query has returned
PlayerQueried(p, h) == [p EXCEPT !.native.board = h.boards[1]]

ApplyQuery ==
    /\ last = NoLast
    /\ \E query \in Queries :
         \E pos \in IF TakesMove(query)
                    THEN Points(player.width, player.height) \cup {PASS} ELSE {PASS} :
           \E color \in IF TakesMove(query) THEN {BLACK, WHITE} ELSE {PlayerColor(player)} :
             \E h \in { QueryBoards(query, player, pos, color) } :
               /\ player' = PlayerQueried(player, h)
               /\ last' = [query |-> query, pos |-> pos, color |-> color,
                           before |-> player, boards |-> h.boards]
    /\ UNCHANGED <<moves, size, komi, remain_times, rule, superko, ponder, search,
                   processor, thread, terminated, exec, rpc, line, ncmds, out>>

QueryNext == ApplyQuery

QuerySpec == EvalInit /\ [][QueryNext]_vars

\* C40: after is_superko_move, get_cleanup_position, get_territories (with
\* or without a move), get_values and get_final_score the board of the
\* Player, its side to move, its turn counter, its move and capture counts
\* and histories are what they were before.
C40_QueriesPure ==
    last # NoLast =>
      /\ PlayerBoard(player) = PlayerBoard(last.before)
      /\ PlayerColor(player) = PlayerColor(last.before)
      /\ player.turn = last.before.turn
      /\ player.moves = last.before.moves
      /\ player.captureds = last.before.captureds
      /\ player.histories = last.before.histories

\* a query has played a move that captures on its own board
C40_Witness ==
    /\ last # NoLast
    /\ TakesMove(last.query)
    /\ last.boards[2] # last.boards[1]
    /\ \E v \in DOMAIN last.boards[1].cells :
         last.boards[1].cells[v] # EMPTY /\ last.boards[2].cells[v] = EMPTY

====
